---------------------------- MODULE Spec2Model ----------------------------
(***************************************************************************)
(* A model of the EngineNoSQL storage and query engine                     *)
(* (internal/engine): collections with secondary indexes, the engine's     *)
(* registry and snapshot files, backup/restore, import and the query       *)
(* builder.                                                                *)
(*                                                                         *)
(* Go values held in map[string]interface{} are records [t, v] that keep   *)
(* the dynamic type; text (index keys, JSON literals) is a sequence of     *)
(* one-character strings so that formatting and parsing are computed.      *)
(***************************************************************************)
EXTENDS Integers, Sequences, FiniteSets, TLC

(***************************************************************************)
(* Bounds of the model                                                     *)
(***************************************************************************)
\* number of distinct document ids callers use
MaxIds == 2
\* the wall clock saturates at this reading
MaxClock == 1
\* number of rows of an imported file
MaxImport == 1
MaxRows == 2
\* number of threads calling into the engine at once
MaxThreads == 2
\* number of mutations the callers of a concurrent run make
MaxMutations == 2
\* largest skip and limit of a query
MaxPage == 2
\* the Database objects allocated in a run
MaxObjects == 2

(***************************************************************************)
(* Text                                                                    *)
(***************************************************************************)
DigitChars == <<"0", "1", "2", "3", "4", "5", "6", "7", "8", "9">>

\* the characters the model's texts use, in byte order
CharOrder == <<" ", "(", "+", ".", "0", "1", "2", "3", "4", "5", "6", "7", "8", "9",
               "[", "]", "a", "e", "f", "l", "r", "s", "t", "u">>

CharCode(c) == CHOOSE i \in 1..Len(CharOrder) : CharOrder[i] = c

IsDigit(c) == \E i \in 1..10 : DigitChars[i] = c

DigitVal(c) == (CHOOSE i \in 1..10 : DigitChars[i] = c) - 1

\* Go's < on strings: bytewise lexicographic
RECURSIVE StrLess(_, _)
StrLess(s, t) ==
    IF t = <<>> THEN FALSE
    ELSE IF s = <<>> THEN TRUE
    ELSE IF CharCode(Head(s)) < CharCode(Head(t)) THEN TRUE
    ELSE IF CharCode(Head(s)) > CharCode(Head(t)) THEN FALSE
    ELSE StrLess(Tail(s), Tail(t))

\* strconv.Itoa for a non-negative integer
RECURSIVE FormatInt(_)
FormatInt(n) ==
    IF n < 10 THEN <<DigitChars[n + 1]>>
    ELSE FormatInt(n \div 10) \o <<DigitChars[(n % 10) + 1]>>

RECURSIVE StripZeros(_)
StripZeros(s) ==
    IF Len(s) > 1 /\ s[Len(s)] = "0" THEN StripZeros(SubSeq(s, 1, Len(s) - 1))
    ELSE s

\* strconv.FormatFloat(x, 'g', -1, 64) for a non-negative integral x:
\* %e form once the decimal exponent reaches 6 (eprec = 6 when shortest)
FormatFloat(x) ==
    LET ds  == FormatInt(x)
        exp == Len(ds) - 1
        sig == StripZeros(ds)
        e2  == IF exp < 10 THEN <<"0">> \o FormatInt(exp) ELSE FormatInt(exp)
    IN  IF exp < 6 THEN ds
        ELSE <<Head(sig)>>
             \o (IF Len(sig) > 1 THEN <<".">> \o Tail(sig) ELSE <<>>)
             \o <<"e", "+">> \o e2

RECURSIVE Pow10(_)
Pow10(n) == IF n = 0 THEN 1 ELSE 10 * Pow10(n - 1)

AllDigits(s) == Len(s) > 0 /\ \A i \in 1..Len(s) : IsDigit(s[i])

RECURSIVE DigitsVal(_)
DigitsVal(s) ==
    IF s = <<>> THEN 0 ELSE 10 * DigitsVal(SubSeq(s, 1, Len(s) - 1)) + DigitVal(s[Len(s)])

\* strconv.ParseFloat on the texts of the model: digits, an optional
\* fraction and an optional e+NN exponent; the value must be integral
ParseFloat(s) ==
    LET ePos  == IF \E i \in 1..Len(s) : s[i] = "e"
                 THEN CHOOSE i \in 1..Len(s) : s[i] = "e" ELSE 0
        mant  == IF ePos = 0 THEN s ELSE SubSeq(s, 1, ePos - 1)
        expS  == IF ePos = 0 THEN <<>> ELSE SubSeq(s, ePos + 1, Len(s))
        expD  == IF expS # <<>> /\ Head(expS) = "+" THEN Tail(expS) ELSE expS
        dPos  == IF \E i \in 1..Len(mant) : mant[i] = "."
                 THEN CHOOSE i \in 1..Len(mant) : mant[i] = "." ELSE 0
        intS  == IF dPos = 0 THEN mant ELSE SubSeq(mant, 1, dPos - 1)
        fracS == IF dPos = 0 THEN <<>> ELSE SubSeq(mant, dPos + 1, Len(mant))
        okM   == AllDigits(intS \o fracS)
        okE   == ePos = 0 \/ AllDigits(expD)
        expV  == IF ePos = 0 THEN 0 ELSE DigitsVal(expD)
    IN  IF okM /\ okE /\ expV >= Len(fracS)
        THEN [ok |-> TRUE, val |-> DigitsVal(intS \o fracS) * Pow10(expV - Len(fracS))]
        ELSE [ok |-> FALSE, val |-> 0]


(***************************************************************************)
(* Values and maps                                                         *)
(***************************************************************************)
IntV(n)   == [t |-> "int", v |-> n]
FloatV(n) == [t |-> "float", v |-> n]
StrV(s)   == [t |-> "string", v |-> s]
BoolV(b)  == [t |-> "bool", v |-> b]

ArrayV(vs) == [t |-> "array", v |-> vs]

\* fmt.Sprintf("%v", value); a slice prints as [e1 e2 ...]
RECURSIVE Stringify(_)
Stringify(value) ==
    CASE value.t = "int"    -> FormatInt(value.v)
      [] value.t = "float"  -> FormatFloat(value.v)
      [] value.t = "string" -> value.v
      [] value.t = "bool"   -> IF value.v THEN <<"t", "r", "u", "e">>
                                          ELSE <<"f", "a", "l", "s", "e">>
      [] value.t = "array"  ->
            LET RECURSIVE Elems(_)
                Elems(i) == IF i = 0 THEN <<>>
                            ELSE Elems(i - 1) \o (IF i > 1 THEN <<" ">> ELSE <<>>)
                                 \o Stringify(value.v[i])
            IN  <<"[">> \o Elems(Len(value.v)) \o <<"]">>

EmptyMap == <<>>

\* m[k] = v on a Go map
Put(m, k, v) == [x \in DOMAIN m \cup {k} |-> IF x = k THEN v ELSE m[x]]

\* delete(m, k) on a Go map
Remove(m, k) == [x \in DOMAIN m \ {k} |-> m[x]]

\* the orders in which a range over a map with key set S may visit the keys
Orders(S) ==
    {o \in [1..Cardinality(S) -> S] : \A i, j \in 1..Cardinality(S) : i # j => o[i] # o[j]}

IdNames == <<"a", "b", "c", "d">>
Ids == {IdNames[i] : i \in 1..MaxIds}

Fields == {"f", "g"}

(***************************************************************************)
(* Collection (storage.go)                                                 *)
(***************************************************************************)
NewCollection(name) ==
    [Name |-> name, Documents |-> EmptyMap, Indexes |-> EmptyMap]

\* updateIndexes that keeps the id an index already holds for the key
updateIndexes_keepFirst(indexes, doc) ==
    [field \in DOMAIN indexes |->
        IF /\ field \in DOMAIN doc.Data
           /\ Stringify(doc.Data[field]) \notin DOMAIN indexes[field].Values
        THEN [indexes[field] EXCEPT
                 !.Values = Put(@, Stringify(doc.Data[field]), doc.ID)]
        ELSE indexes[field]]

updateIndexes(indexes, doc) ==
    [field \in DOMAIN indexes |->
        IF field \in DOMAIN doc.Data
        THEN [indexes[field] EXCEPT
                 !.Values = Put(@, Stringify(doc.Data[field]), doc.ID)]
        ELSE indexes[field]]

\* removeFromIndexes that leaves the entries in place
removeFromIndexes_keep(indexes, doc) == indexes

removeFromIndexes(indexes, doc) ==
    [field \in DOMAIN indexes |->
        IF field \in DOMAIN doc.Data
        THEN [indexes[field] EXCEPT
                 !.Values = Remove(@, Stringify(doc.Data[field]))]
        ELSE indexes[field]]

\* Insert without the test for a present id
Insert_overwrite(c, id, data, t1, t2) ==
    LET doc == [ID |-> id, Data |-> data, CreatedAt |-> t1, UpdatedAt |-> t2]
    IN  [err |-> "",
         c   |-> [c EXCEPT !.Documents = Put(@, id, doc),
                           !.Indexes = updateIndexes(@, doc)]]

\* t1, t2: the two readings of time.Now()
Insert(c, id, data, t1, t2) ==
    IF id \in DOMAIN c.Documents
    THEN [err |-> "AlreadyExists", c |-> c]
    ELSE LET doc == [ID |-> id, Data |-> data, CreatedAt |-> t1, UpdatedAt |-> t2]
         IN  [err |-> "",
              c   |-> [c EXCEPT !.Documents = Put(@, id, doc),
                                !.Indexes = updateIndexes(@, doc)]]

\* Update that merges the new data into the old
Update_merge(c, id, data, t) ==
    IF id \notin DOMAIN c.Documents
    THEN [err |-> "NotFound", c |-> c]
    ELSE LET old == c.Documents[id]
             doc == [old EXCEPT
                        !.Data = [k \in DOMAIN old.Data \cup DOMAIN data |->
                                     IF k \in DOMAIN data THEN data[k] ELSE old.Data[k]],
                        !.UpdatedAt = t]
         IN  [err |-> "",
              c   |-> [c EXCEPT !.Documents = Put(@, id, doc),
                                !.Indexes = updateIndexes(
                                               removeFromIndexes(@, old), doc)]]

Update(c, id, data, t) ==
    IF id \notin DOMAIN c.Documents
    THEN [err |-> "NotFound", c |-> c]
    ELSE LET old == c.Documents[id]
             doc == [old EXCEPT !.Data = data, !.UpdatedAt = t]
         IN  [err |-> "",
              c   |-> [c EXCEPT !.Documents = Put(@, id, doc),
                                !.Indexes = updateIndexes(
                                               removeFromIndexes(@, old), doc)]]

Delete(c, id) ==
    IF id \notin DOMAIN c.Documents
    THEN [err |-> "NotFound", c |-> c]
    ELSE [err |-> "",
          c   |-> [c EXCEPT !.Documents = Remove(@, id),
                            !.Indexes = removeFromIndexes(@, c.Documents[id])]]

\* the index CreateIndex and CompactDatabase build, visiting the documents
\* in the order ord
RECURSIVE buildIndex(_, _, _, _)
buildIndex(docs, field, ord, i) ==
    IF i = 0 THEN EmptyMap
    ELSE LET doc  == docs[ord[i]]
             prev == buildIndex(docs, field, ord, i - 1)
         IN  IF field \in DOMAIN doc.Data
             THEN Put(prev, Stringify(doc.Data[field]), doc.ID)
             ELSE prev

CreateIndex(c, field, ord) ==
    [c EXCEPT !.Indexes =
        Put(@, field, [Field |-> field,
                       Values |-> buildIndex(c.Documents, field, ord, Len(ord))])]

\* the ids of the documents Find returns, in order; ord is the order of
\* the full scan
Find(c, field, value, ord) ==
    IF field \in DOMAIN c.Indexes
    THEN LET valueStr == Stringify(value)
             values   == c.Indexes[field].Values
         IN  IF valueStr \in DOMAIN values /\ values[valueStr] \in DOMAIN c.Documents
             THEN <<values[valueStr]>>
             ELSE <<>>
    ELSE SelectSeq(ord, LAMBDA id :
             /\ field \in DOMAIN c.Documents[id].Data
             /\ Stringify(c.Documents[id].Data[field]) = Stringify(value))


\* GetAll: the documents in the order ord of the range over them
GetAll(c, ord) == SelectSeq(ord, LAMBDA id : id \in DOMAIN c.Documents)

(***************************************************************************)
(* Database and snapshot encoding (storage.go)                             *)
(***************************************************************************)
CreateCollection(db, name) ==
    IF name \in DOMAIN db.Collections
    THEN [err |-> "AlreadyExists", db |-> db]
    ELSE [err |-> "",
          db  |-> [db EXCEPT !.Collections = Put(@, name, NewCollection(name))]]

\* encoding/json writes a float64 below 1e21 without exponent; the numbers
\* of the model are integral and below that
jsonFloat(x) == FormatInt(x)

\* json.Marshal of a value held in an interface{}
marshalValue(value) ==
    CASE value.t = "int"    -> [j |-> "number", text |-> FormatInt(value.v)]
      [] value.t = "float"  -> [j |-> "number", text |-> jsonFloat(value.v)]
      [] value.t = "string" -> [j |-> "string", text |-> value.v]
      [] value.t = "bool"   -> [j |-> "bool", text |-> Stringify(value)]

\* json.Unmarshal into an interface{}: every number becomes a float64
unmarshalValue(js) ==
    CASE js.j = "number" -> FloatV(ParseFloat(js.text).val)
      [] js.j = "string" -> StrV(js.text)
      [] js.j = "bool"   -> BoolV(js.text = <<"t", "r", "u", "e">>)

\* time.Time.MarshalJSON / UnmarshalJSON: the text of the wall clock reading
marshalTime(t) == FormatInt(t)
unmarshalTime(text) == DigitsVal(text)

marshalDocument(doc) ==
    [k \in {"_id", "data", "created_at", "updated_at"} |->
        CASE k = "_id"        -> doc.ID
          [] k = "data"       -> [x \in DOMAIN doc.Data |-> marshalValue(doc.Data[x])]
          [] k = "created_at" -> marshalTime(doc.CreatedAt)
          [] k = "updated_at" -> marshalTime(doc.UpdatedAt)]

unmarshalDocument(js) ==
    [ID        |-> js["_id"],
     Data      |-> [x \in DOMAIN js["data"] |-> unmarshalValue(js["data"][x])],
     CreatedAt |-> unmarshalTime(js["created_at"]),
     UpdatedAt |-> unmarshalTime(js["updated_at"])]

marshalCollection(c) ==
    [name      |-> c.Name,
     documents |-> [id \in DOMAIN c.Documents |-> marshalDocument(c.Documents[id])],
     indexes   |-> [f \in DOMAIN c.Indexes |->
                       [field |-> c.Indexes[f].Field, values |-> c.Indexes[f].Values]]]

unmarshalCollection(js) ==
    [Name      |-> js.name,
     Documents |-> [id \in DOMAIN js.documents |-> unmarshalDocument(js.documents[id])],
     Indexes   |-> [f \in DOMAIN js.indexes |->
                       [Field |-> js.indexes[f].field, Values |-> js.indexes[f].values]]]

\* json.MarshalIndent(db, "", "  ")
marshalDatabase(db) ==
    [name        |-> db.Name,
     collections |-> [cn \in DOMAIN db.Collections |->
                         marshalCollection(db.Collections[cn])],
     path        |-> db.Path]

\* json.Unmarshal(data, &db)
unmarshalDatabase(js) ==
    [Name        |-> js.name,
     Collections |-> [cn \in DOMAIN js.collections |->
                         unmarshalCollection(js.collections[cn])],
     Path        |-> js.path]

(***************************************************************************)
(* Import (ImportExportManager.ImportData)                                 *)
(***************************************************************************)
FormatJSON == "json"
FormatCSV == "csv"
FormatSQL == "sql"

\* a row of the parsed file: the id and data it yields, or a row the
\* parser rejects (bad is TRUE)
Row(id, data) == [bad |-> FALSE, id |-> id, data |-> data]
BadRow == [bad |-> TRUE, id |-> "", data |-> EmptyMap]

\* the loop of importJSON / importCSV / importSQL over the rows 1..i: a row
\* that fails adds one to Skipped and one entry to Errors
RECURSIVE importRows(_, _, _, _)
importRows(c, rows, i, t) ==
    IF i = 0 THEN [c |-> c, Imported |-> 0, Skipped |-> 0, Errors |-> 0]
    ELSE LET prev == importRows(c, rows, i - 1, t)
             row  == rows[i]
             r    == Insert(prev.c, row.id, row.data, t, t)
         IN  IF row.bad \/ r.err # ""
             THEN [prev EXCEPT !.Skipped = @ + 1, !.Errors = @ + 1]
             ELSE [prev EXCEPT !.c = r.c, !.Imported = @ + 1]

ImportFailed(err, c) == [err |-> err, c |-> c, Imported |-> 0, Skipped |-> 0, Errors |-> 0]

ImportResult(r) ==
    [err |-> "", c |-> r.c, Imported |-> r.Imported, Skipped |-> r.Skipped,
     Errors |-> r.Errors]

\* importJSON: parseJsonData keeps the elements that are objects and drops
\* the others (bad rows) without a word
importJSON(c, rows, t) ==
    ImportResult(importRows(c, SelectSeq(rows, LAMBDA row : ~row.bad), Len(SelectSeq(rows, LAMBDA row : ~row.bad)), t))

\* importCSV: csv.Reader with FieldsPerRecord 0 takes the field count of
\* the header and ReadAll fails on a record with another count (bad rows);
\* a file without a data row is refused
importCSV(c, rows, t) ==
    IF rows = <<>> \/ \E i \in 1..Len(rows) : rows[i].bad
    THEN ImportFailed("Malformed", c)
    ELSE ImportResult(importRows(c, rows, Len(rows), t))

\* importSQL: an INSERT line parseInsertStatement rejects (bad rows) is
\* skipped
importSQL(c, rows, t) == ImportResult(importRows(c, rows, Len(rows), t))

\* the switch over the format, once the file or the content is read;
\* readable: the file opens and its JSON decodes
importFormat(c, Format, readable, rows, t) ==
    IF ~readable THEN ImportFailed("Malformed", c)
    ELSE CASE Format = FormatJSON -> importJSON(c, rows, t)
           [] Format = FormatCSV  -> importCSV(c, rows, t)
           [] Format = FormatSQL  -> importSQL(c, rows, t)

clearDocuments(c, OverwriteData) ==
    IF OverwriteData THEN [c EXCEPT !.Documents = EmptyMap] ELSE c

importChecked(cleared, Format, readable, rows, t) ==
    IF Format \notin {FormatJSON, FormatCSV, FormatSQL}
    THEN ImportFailed("UnsupportedFormat", cleared)
    ELSE importFormat(cleared, Format, readable, rows, t)

\* ImportData on the collection c once the database and the collection
\* are found
ImportData(c, OverwriteData, Format, readable, rows, t) ==
    importChecked(clearDocuments(c, OverwriteData), Format, readable, rows, t)

\* ImportDataFromContent on the collection c once the database and the
\* collection are found: its switch has the cases json and csv
ImportDataFromContent(c, Format, readable, rows, t) ==
    IF Format \notin {FormatJSON, FormatCSV}
    THEN ImportFailed("UnsupportedFormat", c)
    ELSE importFormat(c, Format, readable, rows, t)

GetSupportedFormats == <<FormatJSON, FormatCSV, FormatSQL>>

(***************************************************************************)
(* Query builder                                                           *)
(***************************************************************************)
OpEqual == "$eq"
OpNotEqual == "$ne"
OpGreaterThan == "$gt"
OpGreaterThanOrEqual == "$gte"
OpLessThan == "$lt"
OpLessThanOrEqual == "$lte"
OpIn == "$in"
OpNotIn == "$nin"
OpRegex == "$regex"
OpExists == "$exists"
OpType == "$type"
OpSize == "$size"

Filter(Field, Operator, Value) == [Field |-> Field, Operator |-> Operator, Value |-> Value]

\* NewQuery followed by Where, Sort, Skip and Limit
Query(filters, sortBy, sortOrder, skip, limit) ==
    [filters |-> filters, sortBy |-> sortBy, sortOrder |-> sortOrder,
     skip |-> skip, limit |-> limit]

compareValues(a, b) ==
    LET aStr == Stringify(a)
        bStr == Stringify(b)
        aNum == ParseFloat(aStr)
        bNum == ParseFloat(bStr)
    IN  IF aNum.ok /\ bNum.ok
        THEN IF aNum.val < bNum.val THEN -1
             ELSE IF aNum.val > bNum.val THEN 1 ELSE 0
        ELSE IF StrLess(aStr, bStr) THEN -1
             ELSE IF StrLess(bStr, aStr) THEN 1 ELSE 0

\* the name reflect's kind of the value gets
getValueType(value) ==
    CASE value.t = "string" -> <<"s", "t", "r", "i", "n", "g">>
      [] value.t = "int"    -> <<"i", "n", "t">>
      [] value.t = "float"  -> <<"d", "o", "u", "b", "l", "e">>
      [] value.t = "bool"   -> <<"b", "o", "o", "l">>
      [] value.t = "array"  -> <<"a", "r", "r", "a", "y">>

getValueSize(value) ==
    IF value.t \in {"string", "array"} THEN Len(value.v) ELSE 0

\* regexp.Compile that accepts every pattern
regexCompiles_any(pattern) == TRUE

\* regexp.Compile: of the patterns of the model, which are literal texts,
\* one holding an unclosed parenthesis does not compile
regexCompiles(pattern) == \A i \in 1..Len(pattern) : pattern[i] # "("

\* regex.MatchString for a literal pattern: the text contains it
regexMatch(pattern, text) ==
    \E i \in 1..(Len(text) + 1) :
        /\ i + Len(pattern) - 1 <= Len(text)
        /\ SubSeq(text, i, i + Len(pattern) - 1) = pattern

\* matchesFilter whose $nin asks for a present field and an array
matchesFilter_ninPresent(doc, filter) ==
    LET exists     == filter.Field \in DOMAIN doc.Data
        fieldValue == doc.Data[filter.Field]
        Operator   == filter.Operator
    IN  CASE Operator = OpEqual ->
                exists /\ compareValues(fieldValue, filter.Value) = 0
          [] Operator = OpNotEqual ->
                ~exists \/ compareValues(fieldValue, filter.Value) # 0
          [] Operator = OpGreaterThan ->
                exists /\ compareValues(fieldValue, filter.Value) > 0
          [] Operator = OpGreaterThanOrEqual ->
                exists /\ compareValues(fieldValue, filter.Value) >= 0
          [] Operator = OpLessThan ->
                exists /\ compareValues(fieldValue, filter.Value) < 0
          [] Operator = OpLessThanOrEqual ->
                exists /\ compareValues(fieldValue, filter.Value) <= 0
          [] Operator = OpIn ->
                /\ exists
                /\ filter.Value.t = "array"
                /\ \E i \in 1..Len(filter.Value.v) :
                       compareValues(fieldValue, filter.Value.v[i]) = 0
          [] Operator = OpNotIn ->
                /\ exists
                /\ filter.Value.t = "array"
                /\ \A i \in 1..Len(filter.Value.v) :
                       compareValues(fieldValue, filter.Value.v[i]) # 0
          [] Operator = OpRegex ->
                /\ exists
                /\ filter.Value.t = "string"
                /\ regexCompiles(filter.Value.v)
                /\ regexMatch(filter.Value.v, Stringify(fieldValue))
          [] Operator = OpExists ->
                filter.Value.t = "bool" /\ exists = filter.Value.v
          [] Operator = OpType ->
                /\ exists
                /\ filter.Value.t = "string"
                /\ getValueType(fieldValue) = filter.Value.v
          [] Operator = OpSize ->
                /\ exists
                /\ filter.Value.t = "int"
                /\ getValueSize(fieldValue) = filter.Value.v
          [] OTHER -> FALSE

matchesFilter(doc, filter) ==
    LET exists     == filter.Field \in DOMAIN doc.Data
        fieldValue == doc.Data[filter.Field]
        Operator   == filter.Operator
    IN  CASE Operator = OpEqual ->
                exists /\ compareValues(fieldValue, filter.Value) = 0
          [] Operator = OpNotEqual ->
                ~exists \/ compareValues(fieldValue, filter.Value) # 0
          [] Operator = OpGreaterThan ->
                exists /\ compareValues(fieldValue, filter.Value) > 0
          [] Operator = OpGreaterThanOrEqual ->
                exists /\ compareValues(fieldValue, filter.Value) >= 0
          [] Operator = OpLessThan ->
                exists /\ compareValues(fieldValue, filter.Value) < 0
          [] Operator = OpLessThanOrEqual ->
                exists /\ compareValues(fieldValue, filter.Value) <= 0
          [] Operator = OpIn ->
                /\ exists
                /\ filter.Value.t = "array"
                /\ \E i \in 1..Len(filter.Value.v) :
                       compareValues(fieldValue, filter.Value.v[i]) = 0
          [] Operator = OpNotIn ->
                \/ ~exists
                \/ filter.Value.t # "array"
                \/ \A i \in 1..Len(filter.Value.v) :
                       compareValues(fieldValue, filter.Value.v[i]) # 0
          [] Operator = OpRegex ->
                /\ exists
                /\ filter.Value.t = "string"
                /\ regexCompiles(filter.Value.v)
                /\ regexMatch(filter.Value.v, Stringify(fieldValue))
          [] Operator = OpExists ->
                filter.Value.t = "bool" /\ exists = filter.Value.v
          [] Operator = OpType ->
                /\ exists
                /\ filter.Value.t = "string"
                /\ getValueType(fieldValue) = filter.Value.v
          [] Operator = OpSize ->
                /\ exists
                /\ filter.Value.t = "int"
                /\ getValueSize(fieldValue) = filter.Value.v
          [] OTHER -> FALSE

matchesFilters(doc, filters) ==
    \A i \in 1..Len(filters) : matchesFilter(doc, filters[i])

\* the test of the inner loop of sortDocuments on docs[j], docs[j+1]
shouldSwap(doc1, doc2, qb) ==
    LET exists1 == qb.sortBy \in DOMAIN doc1.Data
        exists2 == qb.sortBy \in DOMAIN doc2.Data
    IN  IF ~exists1 /\ exists2 THEN qb.sortOrder = 1
        ELSE IF exists1 /\ ~exists2 THEN qb.sortOrder = -1
        ELSE IF exists1 /\ exists2
        THEN LET cmp == compareValues(doc1.Data[qb.sortBy], doc2.Data[qb.sortBy])
             IN  (qb.sortOrder = 1 /\ cmp > 0) \/ (qb.sortOrder = -1 /\ cmp < 0)
        ELSE FALSE

\* the inner loop for j (counted from 1) up to top
RECURSIVE bubblePass(_, _, _, _, _)
bubblePass(docs, ids, j, top, qb) ==
    IF j > top THEN ids
    ELSE bubblePass(docs,
                    IF shouldSwap(docs[ids[j]], docs[ids[j + 1]], qb)
                    THEN [ids EXCEPT ![j] = ids[j + 1], ![j + 1] = ids[j]]
                    ELSE ids,
                    j + 1, top, qb)

\* the outer loop for i = 0 .. n-2
RECURSIVE bubbleSort(_, _, _, _)
bubbleSort(docs, ids, i, qb) ==
    IF i >= Len(ids) - 1 THEN ids
    ELSE bubbleSort(docs, bubblePass(docs, ids, 1, Len(ids) - i - 1, qb), i + 1, qb)

\* sortDocuments on the sequence ids of documents
sortDocuments(docs, ids, qb) ==
    IF qb.sortBy = "" THEN ids ELSE bubbleSort(docs, ids, 0, qb)

\* Execute: the loop that collects the matching documents; ord is the
\* order in which the range over the documents visits them
filterDocuments(c, qb, ord) ==
    SelectSeq(ord, LAMBDA id : matchesFilters(c.Documents[id], qb.filters))

\* Execute: apply skip
applySkip(results, qb) ==
    IF qb.skip > 0 /\ qb.skip < Len(results)
    THEN SubSeq(results, qb.skip + 1, Len(results))
    ELSE IF qb.skip >= Len(results) THEN <<>>
    ELSE results

\* Execute: apply limit
applyLimit(results, qb) ==
    IF qb.limit > 0 /\ qb.limit < Len(results)
    THEN SubSeq(results, 1, qb.limit)
    ELSE results

\* Execute that skips one document more than asked
Execute_skipOne(c, qb, ord) ==
    applyLimit(applySkip(sortDocuments(c.Documents, filterDocuments(c, qb, ord), qb),
                         [qb EXCEPT !.skip = @ + 1]), qb)

\* Execute: the ids of the documents returned, in order
Execute(c, qb, ord) ==
    applyLimit(applySkip(sortDocuments(c.Documents, filterDocuments(c, qb, ord), qb),
                         qb), qb)

\* Count that counts what Execute returns
Count_paged(c, qb, ord) == Len(Execute(c, qb, ord))

\* Count: the loop that counts the matching documents
Count(c, qb, ord) == Len(filterDocuments(c, qb, ord))

\* Aggregate: the item built for each document, in the order ord; the keys
\* of the data overwrite _id, created_at and updated_at
aggregateItems(c, ord) ==
    [i \in 1..Len(ord) |->
        LET doc == c.Documents[ord[i]]
        IN  [k \in {"_id", "created_at", "updated_at"} \cup DOMAIN doc.Data |->
                IF k \in DOMAIN doc.Data THEN doc.Data[k]
                ELSE IF k = "_id" THEN StrV(<<doc.ID>>)
                ELSE IF k = "created_at" THEN IntV(doc.CreatedAt)
                ELSE IntV(doc.UpdatedAt)]]

(***************************************************************************)
(* State                                                                   *)
(***************************************************************************)
VARIABLES
    heap,         \* the Database objects ever allocated; a *Database is an index
    databases,    \* Engine.databases: name -> *Database
    files,        \* the data directory: path -> file content
    now,          \* the wall clock
    last,         \* the last call that returned and what it returned
    pc,           \* where each thread stands in its call
    local,        \* the local variables of each thread's call
    elock,        \* Engine.mutex: the threads holding it for reading, for writing
    dmutex,       \* Database.mutex of the database "shop", likewise
    cmutex,       \* Collection.mutex of its collection "items", likewise
    version,      \* history: the number of mutations completed so far
    fileVersion   \* history: the number of mutations each file's content reflects

engineVars == <<heap, databases, files, now, last>>
threadVars == <<pc, local, elock, dmutex, cmutex, version, fileVersion>>
vars == <<heap, databases, files, now, last, pc, local, elock, dmutex, cmutex, version,
         fileVersion>>

Threads == 1..MaxThreads

\* what NewQuery returns
NoQuery == Query(<<>>, "", 1, 0, 0)

NoValue == [t |-> "nil", v |-> 0]

\* the arguments of a call in progress
NoCall == [op |-> "", id |-> "", field |-> "", value |-> NoValue, data |-> EmptyMap]

NoLocal == [name |-> "", db |-> 0, data |-> <<>>, dataVersion |-> 0, startVersion |-> 0,
            qb |-> NoQuery, call |-> NoCall, err |-> "", result |-> <<>>, at |-> 0]

\* no call is in progress
InitThreads ==
    /\ pc = [t \in Threads |-> "idle"]
    /\ local = [t \in Threads |-> NoLocal]
    /\ elock = [r |-> {}, w |-> 0]
    /\ dmutex = [r |-> {}, w |-> 0]
    /\ cmutex = [r |-> {}, w |-> 0]
    /\ version = 0
    /\ fileVersion = EmptyMap

DataDir == "data"

\* filepath.Join(e.dataDir, name+".enosql")
DbPath(name) == [dir |-> DataDir, base |-> name, ext |-> ".enosql"]

Call(op, id, field, value, err, result) ==
    [op |-> op, id |-> id, field |-> field, value |-> value,
     err |-> err, result |-> result]

\* the values and data maps callers pass to a collection
Values == {IntV(1), StrV(<<"1">>), IntV(2)}

Datas ==
    {EmptyMap} \cup {[x \in {"f"} |-> v] : v \in Values}
        \cup {[x \in {"f", "g"} |-> IntV(1)]}

\* a reading of time.Now() on a clock that may be set back
Later_backwards(t) == 0..MaxClock

\* a later reading of time.Now(): the clock never goes backwards
Later(t) == {t, IF t < MaxClock THEN t + 1 ELSE t}

Coll(h, cn) == heap[h].Collections[cn]

SetColl(h, cn, c) == [heap EXCEPT ![h].Collections[cn] = c]

(***************************************************************************)
(* Collection operations as steps                                          *)
(***************************************************************************)
DoInsert(h, cn, id, data) ==
    \E t1 \in Later(now) : \E t2 \in Later(t1) :
        LET r == Insert(Coll(h, cn), id, data, t1, t2)
        IN  /\ heap' = SetColl(h, cn, r.c)
            /\ now' = t2
            /\ last' = Call("Insert", id, "", NoValue, r.err, <<>>)
            /\ UNCHANGED <<databases, files>>

DoUpdate(h, cn, id, data) ==
    \E t \in Later(now) :
        LET r == Update(Coll(h, cn), id, data, t)
        IN  /\ heap' = SetColl(h, cn, r.c)
            /\ now' = t
            /\ last' = Call("Update", id, "", NoValue, r.err, <<>>)
            /\ UNCHANGED <<databases, files>>

DoDelete(h, cn, id) ==
    LET r == Delete(Coll(h, cn), id)
    IN  /\ heap' = SetColl(h, cn, r.c)
        /\ last' = Call("Delete", id, "", NoValue, r.err, <<>>)
        /\ UNCHANGED <<databases, files, now>>

DoCreateIndex(h, cn, field) ==
    \E ord \in Orders(DOMAIN Coll(h, cn).Documents) :
        /\ heap' = SetColl(h, cn, CreateIndex(Coll(h, cn), field, ord))
        /\ last' = Call("CreateIndex", "", field, NoValue, "", <<>>)
        /\ UNCHANGED <<databases, files, now>>

\* only the full scan ranges over the documents
DoFind(h, cn, field, value) ==
    \E ord \in (IF field \in DOMAIN Coll(h, cn).Indexes THEN {<<>>}
                ELSE Orders(DOMAIN Coll(h, cn).Documents)) :
        /\ last' = Call("Find", "", field, value, "",
                        Find(Coll(h, cn), field, value, ord))
        /\ UNCHANGED <<heap, databases, files, now>>

DoCreateCollection(h, name) ==
    LET r == CreateCollection(heap[h], name)
    IN  /\ heap' = [heap EXCEPT ![h] = r.db]
        /\ last' = Call("CreateCollection", name, "", NoValue, r.err, <<>>)
        /\ UNCHANGED <<databases, files, now>>

(***************************************************************************)
(* Spec: the operations of one collection                                  *)
(***************************************************************************)
NewDatabase(name) ==
    [Name |-> name, Collections |-> EmptyMap, Path |-> DbPath(name)]

\* one database "shop" holding the empty collection "items", as after
\* CreateDatabase("shop") and CreateCollection("items"); the calls of a
\* run all fall within one reading of the clock
InitColl ==
    /\ heap = <<[NewDatabase("shop") EXCEPT
                    !.Collections = Put(@, "items", NewCollection("items"))]>>
    /\ databases = Put(EmptyMap, "shop", 1)
    /\ files = EmptyMap
    /\ now = MaxClock
    /\ last = Call("", "", "", NoValue, "", <<>>)
    /\ InitThreads

StepInsert ==
    /\ \E id \in Ids, data \in Datas : DoInsert(1, "items", id, data)
    /\ UNCHANGED threadVars
StepUpdate ==
    /\ \E id \in Ids, data \in Datas : DoUpdate(1, "items", id, data)
    /\ UNCHANGED threadVars
StepDelete ==
    /\ \E id \in Ids : DoDelete(1, "items", id)
    /\ UNCHANGED threadVars
StepCreateIndex ==
    /\ \E field \in Fields : DoCreateIndex(1, "items", field)
    /\ UNCHANGED threadVars
StepFind ==
    /\ \E field \in Fields, value \in Values : DoFind(1, "items", field, value)
    /\ UNCHANGED threadVars

Next ==
    \/ StepInsert
    \/ StepUpdate
    \/ StepDelete
    \/ StepCreateIndex
    \/ StepFind

Spec == InitColl /\ [][Next]_vars


(***************************************************************************)
(* Properties of one collection                                            *)
(***************************************************************************)
Items == Coll(1, "items")

\* the ids a linear scan for value on field yields
ScanIds(c, field, value) ==
    {id \in DOMAIN c.Documents :
        /\ field \in DOMAIN c.Documents[id].Data
        /\ Stringify(c.Documents[id].Data[field]) = Stringify(value)}

Range(s) == {s[i] : i \in DOMAIN s}

IndexEntriesLive(c) ==
    \A field \in DOMAIN c.Indexes :
        \A k \in DOMAIN c.Indexes[field].Values :
            LET id == c.Indexes[field].Values[k]
            IN  /\ id \in DOMAIN c.Documents
                /\ field \in DOMAIN c.Documents[id].Data
                /\ Stringify(c.Documents[id].Data[field]) = k

\* C1: after any sequence of Insert, Update, Delete and CreateIndex, every
\* entry (k, id) of every index on a field f names a document of the
\* collection whose data[f] stringifies to k.
C1_IndexConsistency == IndexEntriesLive(Items)

\* an Update has moved an indexed document to another key while a second
\* document stays indexed
C1_Witness ==
    /\ last.op = "Update" /\ last.err = ""
    /\ "f" \in DOMAIN Items.Indexes
    /\ Cardinality(DOMAIN Items.Indexes["f"].Values) = 2

\* C2: a Find through an index returns a subset of the ids of the linear
\* scan; when exactly one document matches the scan Find returns exactly
\* it, and only when several match may Find return fewer (at most one).
C2_FindAgreesWithScan ==
    (last.op = "Find" /\ last.field \in DOMAIN Items.Indexes) =>
        LET r == Range(last.result)
            s == ScanIds(Items, last.field, last.value)
        IN  /\ r \subseteq s
            /\ Cardinality(s) = 1 => r = s
            /\ Cardinality(s) > 1 => Cardinality(r) <= 1

\* C8: Insert of a present id fails with AlreadyExists, Update and Delete
\* of an absent id fail with NotFound, and a failing call leaves the
\* documents and every index as they were; a successful Insert adds
\* exactly the one document and changes no other.
C8_FailuresChangeNothing ==
    [][LET docs == Items.Documents
           id   == last'.id
       IN  /\ last'.op = "Insert" =>
                /\ (last'.err = "AlreadyExists") = (id \in DOMAIN docs)
                /\ last'.err \in {"", "AlreadyExists"}
                /\ last'.err = "AlreadyExists" => Items' = Items
                /\ last'.err = "" =>
                     /\ DOMAIN Items'.Documents = DOMAIN docs \cup {id}
                     /\ Items'.Documents[id].ID = id
                     /\ \A other \in DOMAIN docs :
                            Items'.Documents[other] = docs[other]
           /\ last'.op \in {"Update", "Delete"} =>
                /\ (last'.err = "NotFound") = (id \notin DOMAIN docs)
                /\ last'.err \in {"", "NotFound"}
                /\ last'.err = "NotFound" => Items' = Items
      ]_vars

\* an Insert was refused while an index holds an entry for that id
C8_Witness ==
    /\ last.op = "Insert" /\ last.err = "AlreadyExists"
    /\ \E field \in DOMAIN Items.Indexes :
           \E k \in DOMAIN Items.Indexes[field].Values :
               Items.Indexes[field].Values[k] = last.id

\* C9: when an index exists on f and Insert(id, data) or Update(id, data)
\* succeeds with data[f] present, a Find(f, data[f]) that follows at once
\* returns exactly that one document, also when other documents hold the
\* same stringified value.
C9_LastWriterWins ==
    (last.op \in {"Insert", "Update"} /\ last.err = "") =>
        \A field \in DOMAIN Items.Indexes :
            field \in DOMAIN Items.Documents[last.id].Data =>
                \A ord \in Orders(DOMAIN Items.Documents) :
                    Find(Items, field, Items.Documents[last.id].Data[field], ord)
                        = <<last.id>>

\* the written document shares its key with another document that holds
\* the value with another type
C9_Witness ==
    /\ last.op \in {"Insert", "Update"} /\ last.err = ""
    /\ "f" \in DOMAIN Items.Indexes
    /\ "f" \in DOMAIN Items.Documents[last.id].Data
    /\ \E other \in DOMAIN Items.Documents \ {last.id} :
           /\ "f" \in DOMAIN Items.Documents[other].Data
           /\ Items.Documents[other].Data["f"] # Items.Documents[last.id].Data["f"]
           /\ Stringify(Items.Documents[other].Data["f"])
                  = Stringify(Items.Documents[last.id].Data["f"])


(***************************************************************************)
(* SpecImport: the operations of one collection and ImportData             *)
(***************************************************************************)
\* the data a row yields: the CSV reader turns the cell 1 into an int64,
\* a JSON string stays a string
RowDatas(Format) ==
    IF Format = FormatCSV THEN {EmptyMap, [x \in {"f"} |-> IntV(1)]}
    ELSE {EmptyMap, [x \in {"f"} |-> StrV(<<"1">>)]}

RowSet(Format) == {BadRow} \cup {Row(id, data) : id \in Ids, data \in RowDatas(Format)}

RowSeqs(Format) == UNION {[1..n -> RowSet(Format)] : n \in 0..MaxImport}

DoImportData(h, cn, OverwriteData, Format, readable, rows) ==
    \E t \in Later(now) :
        LET r == ImportData(Coll(h, cn), OverwriteData, Format, readable, rows, t)
        IN  /\ heap' = SetColl(h, cn, r.c)
            /\ now' = t
            /\ last' = Call("ImportData", "", "", NoValue, r.err,
                            <<r.Imported, r.Skipped>>)
            /\ UNCHANGED <<databases, files>>

StepImportData ==
    /\ \E OverwriteData \in BOOLEAN, Format \in {FormatJSON, FormatCSV, FormatSQL, "xml"} :
           \/ \E rows \in RowSeqs(Format) :
                  DoImportData(1, "items", OverwriteData, Format, TRUE, rows)
           \/ DoImportData(1, "items", OverwriteData, Format, FALSE, <<>>)
    /\ UNCHANGED threadVars

NextImport ==
    \/ StepInsert
    \/ StepUpdate
    \/ StepDelete
    \/ StepCreateIndex
    \/ StepFind
    \/ StepImportData

SpecImport == InitColl /\ [][NextImport]_vars

(***************************************************************************)
(* SpecImporter: imports of up to MaxRows rows from a file and from a      *)
(* content buffer                                                          *)
(***************************************************************************)
ImportRowSet(Format) ==
    {BadRow} \cup {Row(id, data) : id \in Ids, data \in RowDatas(Format) \ {EmptyMap}}

ImportRowSeqs(Format) == UNION {[1..n -> ImportRowSet(Format)] : n \in 0..MaxRows}

ImportFormats == {FormatJSON, FormatCSV, FormatSQL, "xml"}

ImportCall(op, OverwriteData, Format, readable, rows, r) ==
    [op |-> op, err |-> r.err, overwrite |-> OverwriteData, format |-> Format,
     readable |-> readable, rows |-> rows,
     result |-> [Imported |-> r.Imported, Skipped |-> r.Skipped, Errors |-> r.Errors]]

DoImport(op, OverwriteData, Format, readable, rows, t, r) ==
    /\ heap' = SetColl(1, "items", r.c)
    /\ now' = t
    /\ last' = ImportCall(op, OverwriteData, Format, readable, rows, r)
    /\ UNCHANGED <<databases, files>>

StepImportInsert ==
    /\ \E id \in Ids : DoInsert(1, "items", id, EmptyMap)
    /\ UNCHANGED threadVars

StepImportFile ==
    /\ \E OverwriteData \in BOOLEAN, Format \in ImportFormats, readable \in BOOLEAN,
          t \in Later(now) :
           \E rows \in ImportRowSeqs(Format) :
               DoImport("ImportData", OverwriteData, Format, readable, rows, t,
                        ImportData(Coll(1, "items"), OverwriteData, Format, readable, rows, t))
    /\ UNCHANGED threadVars

StepImportContent ==
    /\ \E Format \in ImportFormats, readable \in BOOLEAN, t \in Later(now) :
           \E rows \in ImportRowSeqs(Format) :
               DoImport("ImportDataFromContent", FALSE, Format, readable, rows, t,
                        ImportDataFromContent(Coll(1, "items"), Format, readable, rows, t))
    /\ UNCHANGED threadVars

NextImporter ==
    \/ StepImportInsert
    \/ StepImportFile
    \/ StepImportContent

SpecImporter == InitColl /\ [][NextImporter]_vars

ImportOps == {"ImportData", "ImportDataFromContent"}

\* the ids the collection holds when the rows are inserted
ImportBase == IF last'.overwrite THEN {} ELSE DOMAIN heap[1].Collections["items"].Documents

ImportedDocuments == heap'[1].Collections["items"].Documents

\* C26: an import that returns a result has as many errors as skipped
\* rows, imported as many rows as it added documents and, for CSV, imported
\* or skipped every data row; and whenever the format is accepted and the
\* input readable, a well-formed row that brings a new id and has no
\* malformed row after it is in the collection afterwards, whatever rows
\* fail before it.
C26_ImportCounts ==
    [][last'.op \in ImportOps =>
          /\ last'.err = "" =>
                 /\ last'.result.Errors = last'.result.Skipped
                 /\ last'.result.Imported =
                        Cardinality(DOMAIN ImportedDocuments \ ImportBase)
                 /\ last'.format = FormatCSV =>
                        last'.result.Imported + last'.result.Skipped = Len(last'.rows)
          /\ (last'.readable /\ last'.err # "UnsupportedFormat") =>
                 \A i \in 1..Len(last'.rows) :
                     (/\ ~last'.rows[i].bad
                      /\ last'.rows[i].id \notin ImportBase
                      /\ \A j \in (i + 1)..Len(last'.rows) : ~last'.rows[j].bad
                      /\ \A j \in 1..(i - 1) :
                             last'.rows[j].bad \/ last'.rows[j].id # last'.rows[i].id) =>
                         /\ last'.rows[i].id \in DOMAIN ImportedDocuments
                         /\ ImportedDocuments[last'.rows[i].id].Data = last'.rows[i].data]_vars

\* C27: ImportData and ImportDataFromContent accept each format
\* GetSupportedFormats lists and reject with UnsupportedFormat exactly the
\* formats outside the list.
C27_SupportedFormats ==
    last.op \in ImportOps =>
        (last.err = "UnsupportedFormat"
            <=> \A i \in 1..Len(GetSupportedFormats) : GetSupportedFormats[i] # last.format)

\* C3: every index entry points to an existing document in every
\* reachable state, also after ImportData with overwrite_data on a
\* collection that has indexes.
C3_IndexEntriesPointToDocuments ==
    \A field \in DOMAIN Items.Indexes :
        \A k \in DOMAIN Items.Indexes[field].Values :
            Items.Indexes[field].Values[k] \in DOMAIN Items.Documents


\* C33: every document Find(field, value) returns holds the field with a
\* value whose stringification equals that of value, also after imports
\* that overwrite the collection.
C33_FindReturnsMatches ==
    last.op = "Find" =>
        \A id \in Range(last.result) :
            /\ id \in DOMAIN Items.Documents
            /\ last.field \in DOMAIN Items.Documents[id].Data
            /\ Stringify(Items.Documents[id].Data[last.field]) = Stringify(last.value)

\* C34: an ImportData that returns an error leaves the documents and the
\* indexes of the collection as they were, also with overwrite_data.
C34_FailedImportChangesNothing ==
    [][(last'.op = "ImportData" /\ last'.err # "") =>
          /\ Items'.Documents = Items.Documents
          /\ Items'.Indexes = Items.Indexes]_vars

(***************************************************************************)
(* SpecClock: the operations of one collection while the clock advances    *)
(***************************************************************************)
InitClock ==
    /\ heap = <<[NewDatabase("shop") EXCEPT
                    !.Collections = Put(@, "items", NewCollection("items"))]>>
    /\ databases = Put(EmptyMap, "shop", 1)
    /\ files = EmptyMap
    /\ now = 0
    /\ last = Call("", "", "", NoValue, "", <<>>)
    /\ InitThreads

NextClock ==
    \/ StepInsert
    \/ StepUpdate
    \/ StepDelete

SpecClock == InitClock /\ [][NextClock]_vars

\* C28: in every reachable state every document has updated_at >=
\* created_at, the clock never going backwards.
C28_UpdatedNotBeforeCreated ==
    \A id \in DOMAIN Items.Documents :
        Items.Documents[id].UpdatedAt >= Items.Documents[id].CreatedAt

\* an Update has moved updated_at past created_at
C28_Witness ==
    /\ last.op = "Update" /\ last.err = ""
    /\ Items.Documents[last.id].UpdatedAt > Items.Documents[last.id].CreatedAt

\* C29: a successful Update(id) or Delete(id) leaves in place, unchanged,
\* every index entry that maps to another document, but for the entry
\* Update writes for the new value of id.
C29_OthersEntriesStay ==
    [][(last'.op \in {"Update", "Delete"} /\ last'.err = "") =>
          \A field \in DOMAIN Items.Indexes :
              \A k \in DOMAIN Items.Indexes[field].Values :
                  (/\ Items.Indexes[field].Values[k] # last'.id
                   /\ ~(/\ last'.op = "Update"
                        /\ field \in DOMAIN Items'.Documents[last'.id].Data
                        /\ Stringify(Items'.Documents[last'.id].Data[field]) = k)) =>
                      /\ k \in DOMAIN Items'.Indexes[field].Values
                      /\ Items'.Indexes[field].Values[k] = Items.Indexes[field].Values[k]]_vars

\* C30: a successful Update(id, data) leaves the document with exactly
\* data, its id and created_at as they were, every other document as it
\* was, and the same set of indexed fields.
C30_UpdateReplacesData ==
    [][\A id \in Ids, data \in Datas :
          (DoUpdate(1, "items", id, data) /\ last'.err = "") =>
              /\ Items'.Documents[id].Data = data
              /\ Items'.Documents[id].ID = id
              /\ Items'.Documents[id].CreatedAt = Items.Documents[id].CreatedAt
              /\ DOMAIN Items'.Documents = DOMAIN Items.Documents
              /\ \A other \in DOMAIN Items.Documents \ {id} :
                     Items'.Documents[other] = Items.Documents[other]
              /\ DOMAIN Items'.Indexes = DOMAIN Items.Indexes]_vars

\* an Update has left a document without data next to another document
\* that holds data, on an indexed collection
C30_Witness ==
    /\ last.op = "Update" /\ last.err = ""
    /\ Items.Documents[last.id].Data = EmptyMap
    /\ \E other \in DOMAIN Items.Documents \ {last.id} :
           DOMAIN Items.Documents[other].Data = {"f", "g"}
    /\ DOMAIN Items.Indexes = {"f"}

(***************************************************************************)
(* SpecSave: threads calling SaveDatabase while callers mutate             *)
(***************************************************************************)
\* a mutation counts once it has changed the database
Mutation(step) ==
    /\ version < MaxMutations
    /\ step
    /\ version' = (IF heap' # heap THEN version + 1 ELSE version)
    /\ UNCHANGED <<pc, local, elock, dmutex, cmutex, fileVersion>>

SaveDatas == {[x \in {"f"} |-> IntV(1)], [x \in {"f"} |-> IntV(2)]}

MutInsert == Mutation(\E data \in SaveDatas : DoInsert(1, "items", "a", data))
MutUpdate == Mutation(\E data \in SaveDatas : DoUpdate(1, "items", "a", data))
MutDelete == Mutation(DoDelete(1, "items", "a"))
MutCreateIndex == Mutation(DoCreateIndex(1, "items", "f"))
MutCreateCollection == Mutation(DoCreateCollection(1, "more"))

\* SaveDatabase: e.mutex.RLock() and the lookup of the name; an unknown
\* name returns at once
SaveStart(t, name) ==
    /\ pc[t] = "idle"
    /\ elock.w = 0
    /\ IF name \notin DOMAIN databases
       THEN /\ last' = Call("SaveDatabase", name, "", NoValue, "NotFound", <<>>)
            /\ UNCHANGED <<pc, local, elock>>
       ELSE /\ pc' = [pc EXCEPT ![t] = "marshal"]
            /\ local' = [local EXCEPT ![t] =
                            [NoLocal EXCEPT !.name = name, !.db = databases[name],
                                            !.startVersion = version]]
            /\ elock' = [elock EXCEPT !.r = @ \cup {t}]
            /\ UNCHANGED last
    /\ UNCHANGED <<heap, databases, files, now, dmutex, cmutex, version, fileVersion>>

\* saveDatabase: json.MarshalIndent(db, "", "  ") into the local data
SaveMarshal(t) ==
    /\ pc[t] = "marshal"
    /\ local' = [local EXCEPT ![t].data = marshalDatabase(heap[local[t].db]),
                              ![t].dataVersion = version]
    /\ pc' = [pc EXCEPT ![t] = "write"]
    /\ UNCHANGED <<engineVars, elock, dmutex, cmutex, version, fileVersion>>

\* saveDatabase: os.WriteFile(db.Path, data, 0644)
SaveWrite(t) ==
    /\ pc[t] = "write"
    /\ files' = Put(files, heap[local[t].db].Path, local[t].data)
    /\ fileVersion' = Put(fileVersion, heap[local[t].db].Path, local[t].dataVersion)
    /\ pc' = [pc EXCEPT ![t] = "return"]
    /\ UNCHANGED <<heap, databases, now, last, local, elock, dmutex, cmutex, version>>

\* SaveDatabase: the deferred e.mutex.RUnlock() and the return of nil
SaveReturn(t) ==
    /\ pc[t] = "return"
    /\ elock' = [elock EXCEPT !.r = @ \ {t}]
    /\ last' = Call("SaveDatabase", local[t].name, "", NoValue, "",
                    <<local[t].startVersion, fileVersion[heap[local[t].db].Path]>>)
    /\ pc' = [pc EXCEPT ![t] = "idle"]
    /\ local' = [local EXCEPT ![t] = NoLocal]
    /\ UNCHANGED <<heap, databases, files, now, dmutex, cmutex, version, fileVersion>>

StepSaveStart == \E t \in Threads, name \in {"shop", "gone"} : SaveStart(t, name)
StepSaveMarshal == \E t \in Threads : SaveMarshal(t)
StepSaveWrite == \E t \in Threads : SaveWrite(t)
StepSaveReturn == \E t \in Threads : SaveReturn(t)

NextSave ==
    \/ MutInsert
    \/ MutUpdate
    \/ MutDelete
    \/ MutCreateIndex
    \/ MutCreateCollection
    \/ StepSaveStart
    \/ StepSaveMarshal
    \/ StepSaveWrite
    \/ StepSaveReturn

SpecSave == InitColl /\ [][NextSave]_vars

\* C4: when a SaveDatabase call returns successfully, the file reflects
\* every mutation that had completed before that call started, whatever
\* other SaveDatabase calls overlap it.
C4_SaveReflectsCompletedMutations ==
    (last.op = "SaveDatabase" /\ last.err = "") =>
        last.result[2] >= last.result[1]


(***************************************************************************)
(* SpecQuery: a caller runs its QueryBuilder on a collection               *)
(***************************************************************************)
QueryDatas ==
    {EmptyMap} \cup {[x \in {"n"} |-> v] : v \in {IntV(2), IntV(10), StrV(<<"1", "0">>)}}

\* the documents a collection may hold, as Insert leaves them
QueryDocs ==
    UNION {[S -> QueryDatas] : S \in SUBSET Ids}

QueryFilters ==
    { <<>>,
      <<Filter("n", OpGreaterThanOrEqual, IntV(10))>>,
      <<Filter("n", OpNotEqual, IntV(2))>>,
      <<Filter("n", OpNotEqual, IntV(2)), Filter("n", OpLessThanOrEqual, StrV(<<"1", "0">>))>> }

\* no Sort call, Sort("n", true), Sort("n", false)
QuerySorts == {<<"", 1>>, <<"n", 1>>, <<"n", -1>>}

Queries ==
    {Query(filters, sort[1], sort[2], skip, limit) :
        filters \in QueryFilters, sort \in QuerySorts,
        skip \in 0..MaxPage, limit \in 0..MaxPage}

\* a collection holding documents and a QueryBuilder the caller has built
InitQuery ==
    /\ \E datas \in QueryDocs :
           heap = <<[NewDatabase("shop") EXCEPT
                        !.Collections = Put(@, "items",
                            [NewCollection("items") EXCEPT
                                !.Documents = [id \in DOMAIN datas |->
                                    [ID |-> id, Data |-> datas[id],
                                     CreatedAt |-> MaxClock, UpdatedAt |-> MaxClock]]])]>>
    /\ databases = Put(EmptyMap, "shop", 1)
    /\ files = EmptyMap
    /\ now = MaxClock
    /\ last = Call("", "", "", NoValue, "", <<>>)
    /\ pc = [t \in Threads |-> "idle"]
    /\ \E qb \in Queries : local = [t \in Threads |-> [NoLocal EXCEPT !.qb = qb]]
    /\ elock = [r |-> {}, w |-> 0]
    /\ dmutex = [r |-> {}, w |-> 0]
    /\ cmutex = [r |-> {}, w |-> 0]
    /\ version = 0
    /\ fileVersion = EmptyMap

StepExecute ==
    /\ \E ord \in Orders(DOMAIN Items.Documents) :
           last' = [op |-> "Execute", err |-> "", query |-> local[1].qb, ord |-> ord,
                    result |-> Execute(Items, local[1].qb, ord)]
    /\ UNCHANGED <<heap, databases, files, now, threadVars>>

StepCount ==
    /\ \E ord \in Orders(DOMAIN Items.Documents) :
           last' = [op |-> "Count", err |-> "", query |-> local[1].qb, ord |-> ord,
                    result |-> Count(Items, local[1].qb, ord)]
    /\ UNCHANGED <<heap, databases, files, now, threadVars>>

NextQuery ==
    \/ StepExecute
    \/ StepCount

SpecQuery == InitQuery /\ [][NextQuery]_vars

\* C5: executing the same QueryBuilder twice with no mutation in between
\* returns the same sequence of documents in the same order, whatever the
\* orders in which the document map is traversed.
C5_ExecuteTwiceSameResult ==
    [][(/\ last.op = "Execute" /\ last'.op = "Execute"
        /\ last'.query = last.query /\ heap' = heap)
          => last'.result = last.result]_vars

\* y must not come before x in a result sorted by the query
InOrder(docs, qb, x, y) ==
    LET hasX == qb.sortBy \in DOMAIN docs[x].Data
        hasY == qb.sortBy \in DOMAIN docs[y].Data
        cmp  == compareValues(docs[x].Data[qb.sortBy], docs[y].Data[qb.sortBy])
    IN  IF qb.sortOrder = 1
        THEN (hasX /\ hasY /\ cmp <= 0) \/ ~hasY
        ELSE (hasX /\ hasY /\ cmp >= 0) \/ ~hasX

\* x and y have equal sort keys
SameKey(docs, qb, x, y) == InOrder(docs, qb, x, y) /\ InOrder(docs, qb, y, x)

Position(seq, x) == CHOOSE i \in 1..Len(seq) : seq[i] = x

\* take(limit, drop(skip, seq))
TakeDrop(seq, skip, limit) ==
    LET dropped == IF skip >= Len(seq) THEN <<>> ELSE SubSeq(seq, skip + 1, Len(seq))
    IN  IF limit > 0 /\ limit < Len(dropped) THEN SubSeq(dropped, 1, limit) ELSE dropped

\* result is take(limit, drop(skip, s)) for the arrangement s of the
\* matching documents that is sorted by the query, equal keys in the order
\* ord of the traversal
IsQueryResult(c, qb, ord, result) ==
    LET matching == {id \in DOMAIN c.Documents : matchesFilters(c.Documents[id], qb.filters)}
    IN  \E s \in Orders(matching) :
            /\ \A i, j \in 1..Len(s) :
                   i < j =>
                       IF qb.sortBy = "" \/ SameKey(c.Documents, qb, s[i], s[j])
                       THEN Position(ord, s[i]) < Position(ord, s[j])
                       ELSE InOrder(c.Documents, qb, s[i], s[j])
            /\ result = TakeDrop(s, qb.skip, qb.limit)

\* the ten documents n = 0..9 of the scenario, and three traversals of them
ScenarioIds == <<"d0", "d1", "d2", "d3", "d4", "d5", "d6", "d7", "d8", "d9">>

ScenarioCollection ==
    [NewCollection("items") EXCEPT
        !.Documents = [id \in Range(ScenarioIds) |->
            [ID |-> id, Data |-> [x \in {"n"} |-> IntV(Position(ScenarioIds, id) - 1)],
             CreatedAt |-> 0, UpdatedAt |-> 0]]]

ScenarioOrders ==
    { ScenarioIds,
      [i \in 1..10 |-> ScenarioIds[11 - i]],
      [i \in 1..10 |-> ScenarioIds[((i * 7) % 10) + 1]] }

ScenarioQuery ==
    Query(<<Filter("n", OpGreaterThanOrEqual, IntV(3))>>, "n", -1, 2, 3)

ScenarioResults ==
    {Execute(ScenarioCollection, ScenarioQuery, ord) : ord \in ScenarioOrders}

Matching(c, qb) ==
    {id \in DOMAIN c.Documents : matchesFilters(c.Documents[id], qb.filters)}

\* C11: Count returns the number of documents matching all filters
\* whatever sort, skip and limit are, and for skip, limit >= 0 the length
\* of Execute's result is max(0, Count - skip) when limit = 0 and
\* min(limit, max(0, Count - skip)) when limit > 0.
C11_CountAndResultLength ==
    /\ last.op = "Count" => last.result = Cardinality(Matching(Items, last.query))
    /\ (last.op = "Execute" /\ last.query.skip >= 0 /\ last.query.limit >= 0) =>
           LET n    == Count(Items, last.query, last.ord)
               rest == IF n > last.query.skip THEN n - last.query.skip ELSE 0
           IN  Len(last.result) =
                   IF last.query.limit = 0 THEN rest
                   ELSE IF last.query.limit < rest THEN last.query.limit ELSE rest

\* a Count of two documents under a query that sorts, skips both and cuts
C11_Witness ==
    /\ last.op = "Count"
    /\ last.result = 2
    /\ last.query.sortBy = "n"
    /\ last.query.skip = 2
    /\ last.query.limit = 1

(***************************************************************************)
(* SpecFilter: one filter of every operator applied to documents           *)
(***************************************************************************)
\* the data of the documents and the values of the filter
FilterDatas ==
    {EmptyMap} \cup {[x \in {"n"} |-> v] :
                        v \in {IntV(2), StrV(<<"(">>), ArrayV(<<IntV(2)>>)}}

FilterValues ==
    {IntV(2), StrV(<<"2">>), StrV(<<"(">>), BoolV(FALSE), BoolV(TRUE),
     ArrayV(<<IntV(2)>>), ArrayV(<<>>)}

Operators ==
    {OpEqual, OpNotEqual, OpGreaterThan, OpGreaterThanOrEqual, OpLessThan,
     OpLessThanOrEqual, OpIn, OpNotIn, OpRegex, OpExists, OpType, OpSize, "$bad"}

\* a collection holding documents and NewQuery().Where(field, operator, value)
InitFilter ==
    /\ \E datas \in UNION {[S -> FilterDatas] : S \in SUBSET Ids} :
           heap = <<[NewDatabase("shop") EXCEPT
                        !.Collections = Put(@, "items",
                            [NewCollection("items") EXCEPT
                                !.Documents = [id \in DOMAIN datas |->
                                    [ID |-> id, Data |-> datas[id],
                                     CreatedAt |-> MaxClock, UpdatedAt |-> MaxClock]]])]>>
    /\ databases = Put(EmptyMap, "shop", 1)
    /\ files = EmptyMap
    /\ now = MaxClock
    /\ last = Call("", "", "", NoValue, "", <<>>)
    /\ pc = [t \in Threads |-> "idle"]
    /\ elock = [r |-> {}, w |-> 0]
    /\ dmutex = [r |-> {}, w |-> 0]
    /\ cmutex = [r |-> {}, w |-> 0]
    /\ version = 0
    /\ fileVersion = EmptyMap
    /\ \E operator \in Operators, value \in FilterValues :
           local = [t \in Threads |->
                       [NoLocal EXCEPT !.qb = [NoQuery EXCEPT
                           !.filters = <<Filter("n", operator, value)>>]]]

\* matchesFilter on one document of the collection
StepMatchesFilter ==
    /\ \E id \in DOMAIN Items.Documents :
           last' = [op |-> "matchesFilter", err |-> "", query |-> local[1].qb,
                    ord |-> <<id>>,
                    result |-> matchesFilter(Items.Documents[id], local[1].qb.filters[1])]
    /\ UNCHANGED <<heap, databases, files, now, threadVars>>

NextFilter ==
    \/ StepMatchesFilter
    \/ StepExecute
    \/ StepCount

SpecFilter == InitFilter /\ [][NextFilter]_vars

\* C12: for every document, field and value, $ne matches exactly when $eq
\* does not, $nin exactly when $in does not, and $exists false exactly the
\* documents lacking the field.
C12_NegatedOperators ==
    last.op = "matchesFilter" =>
        LET doc == Items.Documents[last.ord[1]]
            f   == last.query.filters[1]
        IN  /\ matchesFilter(doc, Filter(f.Field, OpNotEqual, f.Value))
                   = ~matchesFilter(doc, Filter(f.Field, OpEqual, f.Value))
            /\ matchesFilter(doc, Filter(f.Field, OpNotIn, f.Value))
                   = ~matchesFilter(doc, Filter(f.Field, OpIn, f.Value))
            /\ matchesFilter(doc, Filter(f.Field, OpExists, BoolV(FALSE)))
                   = (f.Field \notin DOMAIN doc.Data)

\* $nin with a value that is no array applied to a document holding the field
C12_Witness ==
    /\ last.op = "matchesFilter"
    /\ last.query.filters[1].Operator = OpNotIn
    /\ last.query.filters[1].Value.t # "array"
    /\ "n" \in DOMAIN Items.Documents[last.ord[1]].Data
    /\ last.result = TRUE

\* the filter has a value of the wrong shape or an unknown operator
Malformed(f) ==
    \/ f.Operator = OpIn /\ f.Value.t # "array"
    \/ f.Operator = OpRegex /\ (f.Value.t # "string" \/ f.Value.v = <<"(">>)
    \/ f.Operator = OpExists /\ f.Value.t # "bool"
    \/ f.Operator \notin Operators \ {"$bad"}

\* C13: Execute and Count never return an error; a filter with a value of
\* the wrong shape ($in without an array, $regex with a pattern that does
\* not compile or is no string, $exists without a boolean) or an unknown
\* operator matches no document, so the result is empty.
C13_MalformedFilterMatchesNothing ==
    /\ last.op \in {"Execute", "Count"} => last.err = ""
    /\ (last.op = "Execute" /\ Malformed(last.query.filters[1])) => last.result = <<>>
    /\ (last.op = "Count" /\ Malformed(last.query.filters[1])) => last.result = 0
    /\ (last.op = "matchesFilter" /\ Malformed(last.query.filters[1])) =>
           last.result = FALSE

\* Execute with a $regex whose pattern does not compile, on a collection
\* holding a document whose text is that pattern
C13_Witness ==
    /\ last.op = "Execute"
    /\ last.query.filters[1].Operator = OpRegex
    /\ last.query.filters[1].Value = StrV(<<"(">>)
    /\ \E id \in DOMAIN Items.Documents :
           /\ "n" \in DOMAIN Items.Documents[id].Data
           /\ Items.Documents[id].Data["n"] = StrV(<<"(">>)
    /\ last.result = <<>>

(***************************************************************************)
(* SpecPaging: queries with any integers passed to Skip and Limit          *)
(***************************************************************************)
\* NewQuery().Skip(skip).Limit(limit): both setters store any int
PagingQueries ==
    {[NoQuery EXCEPT !.skip = skip, !.limit = limit] :
        skip \in -MaxPage..MaxPage, limit \in -MaxPage..MaxPage}

InitPaging ==
    /\ \E datas \in QueryDocs :
           heap = <<[NewDatabase("shop") EXCEPT
                        !.Collections = Put(@, "items",
                            [NewCollection("items") EXCEPT
                                !.Documents = [id \in DOMAIN datas |->
                                    [ID |-> id, Data |-> datas[id],
                                     CreatedAt |-> MaxClock, UpdatedAt |-> MaxClock]]])]>>
    /\ databases = Put(EmptyMap, "shop", 1)
    /\ files = EmptyMap
    /\ now = MaxClock
    /\ last = Call("", "", "", NoValue, "", <<>>)
    /\ pc = [t \in Threads |-> "idle"]
    /\ \E qb \in PagingQueries : local = [t \in Threads |-> [NoLocal EXCEPT !.qb = qb]]
    /\ elock = [r |-> {}, w |-> 0]
    /\ dmutex = [r |-> {}, w |-> 0]
    /\ cmutex = [r |-> {}, w |-> 0]
    /\ version = 0
    /\ fileVersion = EmptyMap

NextPaging ==
    \/ StepExecute
    \/ StepCount

SpecPaging == InitPaging /\ [][NextPaging]_vars

\* C14: Execute of a query whose skip or limit is negative returns an
\* InvalidArgument error and no documents.
C14_NegativePagingRejected ==
    (last.op = "Execute" /\ (last.query.skip < 0 \/ last.query.limit < 0)) =>
        (last.err = "InvalidArgument" /\ last.result = <<>>)

(***************************************************************************)
(* Aggregation pipeline (Collection.Aggregate)                             *)
(***************************************************************************)
\* the stages of a pipeline and the functions of a Group stage; the ID of
\* a Group stage is a string naming a field or some other value
MatchStage(Filters) == [kind |-> "match", Filters |-> Filters]
GroupStage(ID, fields) == [kind |-> "group", ID |-> ID, Fields |-> fields]
AggregateFunc(Operation, Field) == [Operation |-> Operation, Field |-> Field]
StringID(field) == [isString |-> TRUE, field |-> field]
OtherID == [isString |-> FALSE, field |-> ""]

NullKey == <<"n", "u", "l", "l">>

\* MatchStage.matchesFilter
cmpHolds(operator, cmp) ==
    CASE operator = OpEqual       -> cmp = 0
      [] operator = OpGreaterThan -> cmp > 0
      [] operator = OpLessThan    -> cmp < 0
      [] OTHER -> FALSE

stageMatchesFilter(item, filter) ==
    /\ filter.Operator \in {OpEqual, OpGreaterThan, OpLessThan}
    /\ filter.Field \in DOMAIN item
    /\ cmpHolds(filter.Operator, compareValues(item[filter.Field], filter.Value))

\* MatchStage.Process
matchProcess(stage, data) ==
    SelectSeq(data, LAMBDA item :
        \A i \in 1..Len(stage.Filters) : stageMatchesFilter(item, stage.Filters[i]))

\* getGroupKey that puts an item lacking the field under the empty key
getGroupKey_empty(stage, item) ==
    IF stage.ID.isString /\ stage.ID.field \in DOMAIN item
    THEN Stringify(item[stage.ID.field])
    ELSE IF stage.ID.isString THEN <<>> ELSE NullKey

getGroupKey(stage, item) ==
    IF stage.ID.isString /\ stage.ID.field \in DOMAIN item
    THEN Stringify(item[stage.ID.field])
    ELSE NullKey

\* strconv.ParseFloat(fmt.Sprintf("%v", value), 64) of the item's field
numberOf(item, field) ==
    IF field \in DOMAIN item THEN ParseFloat(Stringify(item[field]))
    ELSE [ok |-> FALSE, val |-> 0]

appendNumber(nums, num) == IF num.ok THEN Append(nums, num.val) ELSE nums

\* the numbers of the field in data[1..i]
RECURSIVE numbersOf(_, _, _)
numbersOf(data, field, i) ==
    IF i = 0 THEN <<>>
    ELSE appendNumber(numbersOf(data, field, i - 1), numberOf(data[i], field))

RECURSIVE sumSeq(_)
sumSeq(nums) == IF nums = <<>> THEN 0 ELSE sumSeq(SubSeq(nums, 1, Len(nums) - 1)) + nums[Len(nums)]

maxSeq(nums) == CHOOSE m \in Range(nums) : \A n \in Range(nums) : n <= m
minSeq(nums) == CHOOSE m \in Range(nums) : \A n \in Range(nums) : m <= n

\* the switch of calculateAggregation over the operation, count being
\* len(data) and nums the values of the field that parse as numbers; the
\* average is kept as the sum and the count it divides
aggregationOf(operation, count, nums) ==
    CASE operation = "count" -> [err |-> "", value |-> IntV(count)]
      [] operation = "sum"   -> [err |-> "", value |-> FloatV(sumSeq(nums))]
      [] operation = "avg"   ->
             [err |-> "", value |-> IF nums # <<>>
                                    THEN [t |-> "ratio", v |-> <<sumSeq(nums), Len(nums)>>]
                                    ELSE IntV(0)]
      [] operation = "max"   ->
             [err |-> "", value |-> IF nums # <<>> THEN FloatV(maxSeq(nums)) ELSE NoValue]
      [] operation = "min"   ->
             [err |-> "", value |-> IF nums # <<>> THEN FloatV(minSeq(nums)) ELSE NoValue]
      [] OTHER -> [err |-> "UnknownAggregation", value |-> NoValue]

\* calculateAggregation that knows every operation
calculateAggregation_lenient(data, aggFunc) == [err |-> "", value |-> IntV(Len(data))]

calculateAggregation(data, aggFunc) ==
    aggregationOf(aggFunc.Operation, Len(data), numbersOf(data, aggFunc.Field, Len(data)))

\* GroupStage.Process, the first loop: the key of every item
groupKeys(stage, data) == [i \in 1..Len(data) |-> getGroupKey(stage, data[i])]

appendIf(items, cond, item) == IF cond THEN Append(items, item) ELSE items

\* groups[key]: the items of data[1..i] under the key
RECURSIVE groupOf(_, _, _, _)
groupOf(data, keys, key, i) ==
    IF i = 0 THEN <<>>
    ELSE appendIf(groupOf(data, keys, key, i - 1), keys[i] = key, data[i])

\* GroupStage.Process, the second loop for one group: the outcome of each
\* function of the stage, under "_id" the key
groupResult(stage, data, keys, key) ==
    [k \in {"_id"} \cup DOMAIN stage.Fields |->
        IF k \in DOMAIN stage.Fields
        THEN calculateAggregation(groupOf(data, keys, key, Len(data)), stage.Fields[k])
        ELSE [err |-> "", value |-> StrV(key)]]

\* the stage fails when a function of a group fails
groupOutcome(results) ==
    IF \E i \in 1..Len(results) : \E k \in DOMAIN results[i] : results[i][k].err # ""
    THEN [err |-> "UnknownAggregation", data |-> <<>>]
    ELSE [err  |-> "",
          data |-> [i \in 1..Len(results) |->
                       [k \in DOMAIN results[i] |-> results[i][k].value]]]

groupEach(stage, data, keys, order) ==
    groupOutcome([i \in 1..Len(order) |-> groupResult(stage, data, keys, order[i])])

\* the groups come in the order rank gives their keys
groupWith(stage, data, keys, rank) ==
    groupEach(stage, data, keys, SelectSeq(rank, LAMBDA key : key \in Range(keys)))

\* GroupStage.Process
groupProcess(stage, data, rank) == groupWith(stage, data, groupKeys(stage, data), rank)

\* stage.Process(data)
Process(stage, data, rank) ==
    IF stage.kind = "match" THEN [err |-> "", data |-> matchProcess(stage, data)]
    ELSE groupProcess(stage, data, rank)

\* Aggregate: the loop over the stages from stage i on; r is what stage i
\* returned
RECURSIVE runPipeline(_, _, _, _)
afterStage(pipeline, r, rank, i) ==
    IF r.err # "" THEN [err |-> r.err, data |-> <<>>]
    ELSE runPipeline(pipeline, r.data, rank, i + 1)

runPipeline(pipeline, data, rank, i) ==
    IF i > Len(pipeline) THEN [err |-> "", data |-> data]
    ELSE afterStage(pipeline, Process(pipeline[i], data, rank), rank, i)

\* Aggregate: ord is the order of the range over the documents, rank the
\* order of the ranges over the groups
Aggregate(c, pipeline, ord, rank) == runPipeline(pipeline, aggregateItems(c, ord), rank, 1)

(***************************************************************************)
(* SpecConcurrent: threads calling the operations of one collection        *)
(***************************************************************************)
\* sync.RWMutex: Lock waits for no holder, RLock for no writer
CanLock(m) == m.w = 0 /\ m.r = {}

\* RLock that never waits
CanRLock_always(m) == TRUE

CanRLock(m) == m.w = 0

CallOf(op, id, field, value, data) ==
    [op |-> op, id |-> id, field |-> field, value |-> value, data |-> data]

WriterCalls ==
    {CallOf(op, id, "", NoValue, data) :
        op \in {"Insert", "Update"}, id \in Ids, data \in SaveDatas}
        \cup {CallOf("Delete", id, "", NoValue, EmptyMap) : id \in Ids}
        \cup {CallOf("CreateIndex", "", "f", NoValue, EmptyMap)}

ReaderCalls ==
    {CallOf("Find", "", "f", IntV(1), EmptyMap)}
        \cup {CallOf(op, "", "", NoValue, EmptyMap) :
                 op \in {"GetAll", "Execute", "Count", "Aggregate"}}

\* the query the callers of Execute and Count have built
ConcurrentQuery == Query(<<Filter("f", OpEqual, IntV(1))>>, "f", -1, 0, 0)

\* c.mutex.Lock() of Insert, Update, Delete and CreateIndex; data keeps
\* the collection as the call found it
WriterLockOf(t, calls) ==
    /\ pc[t] = "idle"
    /\ CanLock(cmutex)
    /\ \E call \in calls :
           /\ pc' = [pc EXCEPT ![t] = call.op]
           /\ local' = [local EXCEPT ![t] = [NoLocal EXCEPT !.call = call, !.data = Items]]
    /\ cmutex' = [cmutex EXCEPT !.w = t]
    /\ UNCHANGED <<engineVars, elock, dmutex, version, fileVersion>>

WriterLock(t) == WriterLockOf(t, WriterCalls)

\* Insert: the test for the id and c.Documents[id] = doc
InsertDocument(t) ==
    /\ pc[t] = "Insert"
    /\ LET call == local[t].call
           doc  == [ID |-> call.id, Data |-> call.data, CreatedAt |-> now, UpdatedAt |-> now]
       IN  IF call.id \in DOMAIN Items.Documents
           THEN /\ local' = [local EXCEPT ![t].err = "AlreadyExists"]
                /\ pc' = [pc EXCEPT ![t] = "unlock"]
                /\ UNCHANGED heap
           ELSE /\ heap' = SetColl(1, "items", [Items EXCEPT !.Documents = Put(@, call.id, doc)])
                /\ pc' = [pc EXCEPT ![t] = "Insert.updateIndexes"]
                /\ UNCHANGED local
    /\ UNCHANGED <<databases, files, now, last, elock, dmutex, cmutex, version, fileVersion>>

\* Insert, Update: c.updateIndexes(doc)
UpdateIndexes(t) ==
    /\ pc[t] \in {"Insert.updateIndexes", "Update.updateIndexes"}
    /\ heap' = SetColl(1, "items",
                   [Items EXCEPT !.Indexes =
                       updateIndexes(@, Items.Documents[local[t].call.id])])
    /\ pc' = [pc EXCEPT ![t] = "unlock"]
    /\ UNCHANGED <<databases, files, now, last, local, elock, dmutex, cmutex, version,
                   fileVersion>>

\* Update, Delete: the test for the id and c.removeFromIndexes(doc)
RemoveFromIndexes(t) ==
    /\ pc[t] \in {"Update", "Delete"}
    /\ IF local[t].call.id \notin DOMAIN Items.Documents
       THEN /\ local' = [local EXCEPT ![t].err = "NotFound"]
            /\ pc' = [pc EXCEPT ![t] = "unlock"]
            /\ UNCHANGED heap
       ELSE /\ heap' = SetColl(1, "items",
                           [Items EXCEPT !.Indexes =
                               removeFromIndexes(@, Items.Documents[local[t].call.id])])
            /\ pc' = [pc EXCEPT ![t] = IF pc[t] = "Update" THEN "Update.Data"
                                       ELSE "Delete.delete"]
            /\ UNCHANGED local
    /\ UNCHANGED <<databases, files, now, last, elock, dmutex, cmutex, version, fileVersion>>

\* Update: doc.Data = data and doc.UpdatedAt = time.Now()
UpdateData(t) ==
    /\ pc[t] = "Update.Data"
    /\ heap' = SetColl(1, "items",
                   [Items EXCEPT !.Documents[local[t].call.id] =
                       [@ EXCEPT !.Data = local[t].call.data, !.UpdatedAt = now]])
    /\ pc' = [pc EXCEPT ![t] = "Update.updateIndexes"]
    /\ UNCHANGED <<databases, files, now, last, local, elock, dmutex, cmutex, version,
                   fileVersion>>

\* Delete: delete(c.Documents, id)
DeleteDocument(t) ==
    /\ pc[t] = "Delete.delete"
    /\ heap' = SetColl(1, "items",
                   [Items EXCEPT !.Documents = Remove(@, local[t].call.id)])
    /\ pc' = [pc EXCEPT ![t] = "unlock"]
    /\ UNCHANGED <<databases, files, now, last, local, elock, dmutex, cmutex, version,
                   fileVersion>>

\* CreateIndex: the index built and c.Indexes[field] = index
BuildIndex(t) ==
    /\ pc[t] = "CreateIndex"
    /\ \E ord \in Orders(DOMAIN Items.Documents) :
           heap' = SetColl(1, "items", CreateIndex(Items, local[t].call.field, ord))
    /\ pc' = [pc EXCEPT ![t] = "unlock"]
    /\ UNCHANGED <<databases, files, now, last, local, elock, dmutex, cmutex, version,
                   fileVersion>>

\* the deferred c.mutex.Unlock() and the return of a writer
WriterUnlock(t) ==
    /\ pc[t] = "unlock"
    /\ cmutex' = [cmutex EXCEPT !.w = 0]
    /\ last' = Call(local[t].call.op, local[t].call.id, local[t].call.field, NoValue,
                    local[t].err, <<>>)
    /\ pc' = [pc EXCEPT ![t] = "idle"]
    /\ local' = [local EXCEPT ![t] = NoLocal]
    /\ UNCHANGED <<heap, databases, files, now, elock, dmutex, version, fileVersion>>

\* c.mutex.RLock() of Find, GetAll, Execute, Count and Aggregate
ReaderLock(t) ==
    /\ pc[t] = "idle"
    /\ CanRLock(cmutex)
    /\ \E call \in ReaderCalls :
           local' = [local EXCEPT ![t] = [NoLocal EXCEPT !.call = call]]
    /\ pc' = [pc EXCEPT ![t] = "read"]
    /\ cmutex' = [cmutex EXCEPT !.r = @ \cup {t}]
    /\ UNCHANGED <<engineVars, elock, dmutex, version, fileVersion>>

\* what the reader's call yields on the collection c visited in the order ord
ReadResult(c, call, ord) ==
    CASE call.op = "Find"      -> Find(c, call.field, call.value, ord)
      [] call.op = "GetAll"    -> GetAll(c, ord)
      [] call.op = "Execute"   -> Execute(c, ConcurrentQuery, ord)
      [] call.op = "Count"     -> <<Count(c, ConcurrentQuery, ord)>>
      [] call.op = "Aggregate" -> aggregateItems(c, ord)

\* the body of the reader
ReaderRead(t) ==
    /\ pc[t] = "read"
    /\ \E ord \in Orders(DOMAIN Items.Documents) :
           local' = [local EXCEPT ![t].result = ReadResult(Items, local[t].call, ord)]
    /\ pc' = [pc EXCEPT ![t] = "runlock"]
    /\ UNCHANGED <<engineVars, elock, dmutex, cmutex, version, fileVersion>>

\* the deferred c.mutex.RUnlock() and the return of a reader
ReaderUnlock(t) ==
    /\ pc[t] = "runlock"
    /\ cmutex' = [cmutex EXCEPT !.r = @ \ {t}]
    /\ last' = Call(local[t].call.op, "", local[t].call.field, local[t].call.value, "",
                    local[t].result)
    /\ pc' = [pc EXCEPT ![t] = "idle"]
    /\ local' = [local EXCEPT ![t] = NoLocal]
    /\ UNCHANGED <<heap, databases, files, now, elock, dmutex, version, fileVersion>>

StepWriterLock == \E t \in Threads : WriterLock(t)
StepInsertDocument == \E t \in Threads : InsertDocument(t)
StepUpdateIndexes == \E t \in Threads : UpdateIndexes(t)
StepRemoveFromIndexes == \E t \in Threads : RemoveFromIndexes(t)
StepUpdateData == \E t \in Threads : UpdateData(t)
StepDeleteDocument == \E t \in Threads : DeleteDocument(t)
StepBuildIndex == \E t \in Threads : BuildIndex(t)
StepWriterUnlock == \E t \in Threads : WriterUnlock(t)
StepReaderLock == \E t \in Threads : ReaderLock(t)
StepReaderRead == \E t \in Threads : ReaderRead(t)
StepReaderUnlock == \E t \in Threads : ReaderUnlock(t)

NextConcurrent ==
    \/ StepWriterLock
    \/ StepInsertDocument
    \/ StepUpdateIndexes
    \/ StepRemoveFromIndexes
    \/ StepUpdateData
    \/ StepDeleteDocument
    \/ StepBuildIndex
    \/ StepWriterUnlock
    \/ StepReaderLock
    \/ StepReaderRead
    \/ StepReaderUnlock

SpecConcurrent == InitColl /\ [][NextConcurrent]_vars

\* what the writer's call makes of the collection c when nothing else runs
WriteResult(c, call, ord) ==
    CASE call.op = "Insert"      -> Insert(c, call.id, call.data, now, now)
      [] call.op = "Update"      -> Update(c, call.id, call.data, now)
      [] call.op = "Delete"      -> Delete(c, call.id)
      [] call.op = "CreateIndex" -> [err |-> "", c |-> CreateIndex(c, call.field, ord)]

WriterSteps ==
    {"Insert", "Insert.updateIndexes", "Update", "Update.Data", "Update.updateIndexes",
     "Delete", "Delete.delete", "CreateIndex", "unlock"}

ReaderSteps == {"read", "runlock"}

\* C15: concurrent calls of Insert, Update, Delete, CreateIndex, Find,
\* GetAll, Execute, Count and Aggregate on one collection behave as if run
\* one at a time in an order that respects real time: a writer is alone in
\* the collection from its lock to its unlock and leaves what its call
\* makes of the collection it found, documents and indexes together; a
\* reader shares the collection with readers only and returns what its call
\* yields on the collection no writer is working on.
C15_Linearizable ==
    /\ \A t \in Threads :
           /\ pc[t] \in WriterSteps <=> cmutex.w = t
           /\ pc[t] \in ReaderSteps <=> t \in cmutex.r
    /\ cmutex.w # 0 => cmutex.r = {}
    /\ \A t \in Threads :
           pc[t] = "unlock" =>
               \E ord \in Orders(DOMAIN local[t].data.Documents) :
                   LET r == WriteResult(local[t].data, local[t].call, ord)
                   IN  Items = r.c /\ local[t].err = r.err
    /\ \A t \in Threads :
           pc[t] = "runlock" =>
               \E ord \in Orders(DOMAIN Items.Documents) :
                   local[t].result = ReadResult(Items, local[t].call, ord)

\* a Find through the index returns the document of an Insert that has
\* just returned, while the other thread reads too
C15_Witness ==
    /\ last.op = "Insert" /\ last.err = ""
    /\ "f" \in DOMAIN Items.Indexes
    /\ \E t \in Threads :
           /\ pc[t] = "runlock"
           /\ local[t].call.op = "Find"
           /\ local[t].result = <<last.id>>
    /\ Cardinality(cmutex.r) = 2

(***************************************************************************)
(* SpecSaveRace: SaveDatabase while writers are inside the collection      *)
(***************************************************************************)
\* the callers write one document and its index
RaceCalls ==
    {CallOf(op, "a", "", NoValue, data) : op \in {"Insert", "Update"}, data \in SaveDatas}
        \cup {CallOf("Delete", "a", "", NoValue, EmptyMap),
              CallOf("CreateIndex", "", "f", NoValue, EmptyMap)}

RaceWriterLock == \E t \in Threads : WriterLockOf(t, RaceCalls)

NextSaveRace ==
    \/ RaceWriterLock
    \/ StepInsertDocument
    \/ StepUpdateIndexes
    \/ StepRemoveFromIndexes
    \/ StepUpdateData
    \/ StepDeleteDocument
    \/ StepBuildIndex
    \/ StepWriterUnlock
    \/ MutCreateCollection
    \/ StepSaveStart
    \/ StepSaveMarshal
    \/ StepSaveWrite
    \/ StepSaveReturn

SpecSaveRace == InitColl /\ [][NextSaveRace]_vars

\* the database h with c as its collection "items"
WithItems(h, c) == [heap[h] EXCEPT !.Collections["items"] = c]

\* C17: what SaveDatabase serializes holds, for the collection, a state
\* the collection had with no writer halfway: when a writer is inside the
\* collection the snapshot shows the collection either as the writer found
\* it or as the writer leaves it, document and index entries together.
C17_SnapshotWhole ==
    [][\A t \in Threads :
           (pc[t] = "marshal" /\ pc'[t] = "write" /\ cmutex.w # 0) =>
               LET found == local[cmutex.w].data
                   h     == local[t].db
               IN  \/ local'[t].data = marshalDatabase(WithItems(h, found))
                   \/ \E ord \in Orders(DOMAIN found.Documents) :
                          local'[t].data = marshalDatabase(
                              WithItems(h, WriteResult(found, local[cmutex.w].call, ord).c))]_vars

(***************************************************************************)
(* SpecLocks: the locks each operation takes, in its order                 *)
(***************************************************************************)
\* Lock announces the writer, which stops later readers, and Wait is its
\* wait for the readers inside to leave (sync.RWMutex)
Lock(m) == <<<<m, "Lock">>, <<m, "Wait">>>>
Unlock(m) == <<<<m, "Unlock">>>>
RLock(m) == <<<<m, "RLock">>>>
RUnlock(m) == <<<<m, "RUnlock">>>>

\* Engine.GetDatabase, called first by the operations on a named database
GetDatabaseLocks == RLock("E") \o RUnlock("E")

GetCollectionLocks == RLock("D") \o RUnlock("D")

CreateCollectionLocks == Lock("D") \o Unlock("D")

InsertLocks == Lock("C") \o Unlock("C")

GetAllLocks == RLock("C") \o RUnlock("C")

\* CompactDatabase that locks the collection before the database
CompactDatabaseLocks_collectionFirst ==
    GetDatabaseLocks \o Lock("C") \o Lock("D") \o Unlock("C") \o Unlock("D")

CompactDatabaseLocks ==
    GetDatabaseLocks \o Lock("D") \o Lock("C") \o Unlock("C") \o Unlock("D")

GetDatabaseStatsLocks ==
    GetDatabaseLocks \o RLock("D") \o RLock("C") \o RUnlock("C") \o RUnlock("D")

\* the operations and the lock calls each makes from entry to return
LockPrograms ==
    [CreateDatabase   |-> Lock("E") \o Unlock("E"),
     DeleteDatabase   |-> Lock("E") \o Unlock("E"),
     RestoreBackup    |-> Lock("E") \o Unlock("E"),
     GetDatabase      |-> GetDatabaseLocks,
     SaveDatabase     |-> RLock("E") \o RUnlock("E"),
     ListDatabases    |-> RLock("E") \o RUnlock("E"),
     CreateBackup     |-> GetDatabaseLocks,
     CreateCollection |-> CreateCollectionLocks,
     GetCollection    |-> GetCollectionLocks,
     Insert           |-> InsertLocks,
     Find             |-> GetAllLocks,
     CompactDatabase  |-> CompactDatabaseLocks,
     GetDatabaseStats |-> GetDatabaseStatsLocks,
     ExportData       |-> GetDatabaseLocks \o GetCollectionLocks \o GetAllLocks,
     ImportData       |-> GetDatabaseLocks \o GetCollectionLocks
                              \o Lock("C") \o Unlock("C") \o InsertLocks,
     ImportDataCreate |-> GetDatabaseLocks \o GetCollectionLocks \o CreateCollectionLocks
                              \o GetCollectionLocks \o InsertLocks]

MutexNames == {"E", "D", "C"}

MutexOf(m) == IF m = "E" THEN elock ELSE IF m = "D" THEN dmutex ELSE cmutex

SetMutex(m, value) ==
    /\ elock' = IF m = "E" THEN value ELSE elock
    /\ dmutex' = IF m = "D" THEN value ELSE dmutex
    /\ cmutex' = IF m = "C" THEN value ELSE cmutex

\* the lock call thread t is at
NextLock(t) == LockPrograms[local[t].name][local[t].at]

\* whether the lock call thread t is at returns now
CanStep(t) ==
    LET m == MutexOf(NextLock(t)[1])
        k == NextLock(t)[2]
    IN  CASE k = "Lock"  -> m.w = 0
          [] k = "Wait"  -> m.r = {}
          [] k = "RLock" -> CanRLock(m)
          [] OTHER       -> TRUE

\* what the lock call leaves of the mutex
AfterStep(t) ==
    LET m == MutexOf(NextLock(t)[1])
        k == NextLock(t)[2]
    IN  CASE k = "Lock"    -> [m EXCEPT !.w = t]
          [] k = "Wait"    -> m
          [] k = "Unlock"  -> [m EXCEPT !.w = 0]
          [] k = "RLock"   -> [m EXCEPT !.r = @ \cup {t}]
          [] k = "RUnlock" -> [m EXCEPT !.r = @ \ {t}]

\* a thread enters an operation
LockBegin(t) ==
    /\ pc[t] = "idle"
    /\ \E op \in DOMAIN LockPrograms :
           local' = [local EXCEPT ![t] = [NoLocal EXCEPT !.name = op, !.at = 1]]
    /\ pc' = [pc EXCEPT ![t] = "locks"]
    /\ UNCHANGED <<engineVars, elock, dmutex, cmutex, version, fileVersion>>

\* the thread's next lock call returns
LockStep(t, kind) ==
    /\ pc[t] = "locks"
    /\ local[t].at <= Len(LockPrograms[local[t].name])
    /\ NextLock(t)[2] = kind
    /\ CanStep(t)
    /\ SetMutex(NextLock(t)[1], AfterStep(t))
    /\ local' = [local EXCEPT ![t].at = @ + 1]
    /\ UNCHANGED <<engineVars, pc, version, fileVersion>>

\* the operation returns
LockReturn(t) ==
    /\ pc[t] = "locks"
    /\ local[t].at > Len(LockPrograms[local[t].name])
    /\ pc' = [pc EXCEPT ![t] = "idle"]
    /\ local' = [local EXCEPT ![t] = NoLocal]
    /\ UNCHANGED <<engineVars, elock, dmutex, cmutex, version, fileVersion>>

StepLockBegin == \E t \in Threads : LockBegin(t)
StepLock == \E t \in Threads : LockStep(t, "Lock")
StepLockWait == \E t \in Threads : LockStep(t, "Wait")
StepUnlock == \E t \in Threads : LockStep(t, "Unlock")
StepRLock == \E t \in Threads : LockStep(t, "RLock")
StepRUnlock == \E t \in Threads : LockStep(t, "RUnlock")
StepLockReturn == \E t \in Threads : LockReturn(t)

NextLocks ==
    \/ StepLockBegin
    \/ StepLock
    \/ StepLockWait
    \/ StepUnlock
    \/ StepRLock
    \/ StepRUnlock
    \/ StepLockReturn

SpecLocks == InitColl /\ [][NextLocks]_vars

\* Engine before Database before Collection
Rank(m) == IF m = "E" THEN 1 ELSE IF m = "D" THEN 2 ELSE 3

\* the mutexes thread t holds or has announced itself on
Held(t) == {m \in MutexNames : MutexOf(m).w = t \/ t \in MutexOf(m).r}

\* thread t is inside an operation with a lock call still to make
Running(t) == pc[t] = "locks" /\ local[t].at <= Len(LockPrograms[local[t].name])

\* C16: a thread asks for a lock only while every lock it holds comes
\* earlier in the order Engine, Database, Collection, and whenever threads
\* are inside operations one of them can take its next step, whatever the
\* interleaving of the operations.
C16_LockOrderNoDeadlock ==
    /\ \A t \in Threads :
           (Running(t) /\ NextLock(t)[2] \in {"Lock", "RLock"}) =>
               \A h \in Held(t) : Rank(h) < Rank(NextLock(t)[1])
    /\ \A t \in Threads : pc[t] = "idle" => Held(t) = {}
    /\ (\E t \in Threads : Running(t)) => \E t \in Threads : Running(t) /\ CanStep(t)

\* CompactDatabase holds the database and asks for the collection while
\* GetDatabaseStats has to wait for the database
C16_Witness ==
    \E t, u \in Threads :
        /\ local[t].name = "CompactDatabase" /\ Running(t)
        /\ Held(t) = {"D"} /\ NextLock(t) = <<"C", "Lock">> /\ CanStep(t)
        /\ local[u].name = "GetDatabaseStats" /\ Running(u)
        /\ NextLock(u) = <<"D", "RLock">> /\ ~CanStep(u)

(***************************************************************************)
(* SpecCollections: threads adding, removing and reading the collections   *)
(* of one database                                                         *)
(***************************************************************************)
\* the lock on db.mutex each operation holds while it touches
\* db.Collections, and what it does to the map
CollectionPrograms ==
    [CreateCollection |-> [lock |-> "Lock",  access |-> "add"],
     GetCollection    |-> [lock |-> "RLock", access |-> "read"],
     GetDatabaseStats |-> [lock |-> "RLock", access |-> "read"],
     DeleteCollection |-> [lock |-> "none",  access |-> "remove"],
     GetCollections   |-> [lock |-> "none",  access |-> "read"],
     ListDatabases    |-> [lock |-> "none",  access |-> "read"]]

CollectionNames == {"items", "logs"}

\* db.mutex as the operation's lock call leaves it
CollectionLocked(t, lock) ==
    CASE lock = "Lock"  -> [dmutex EXCEPT !.w = t]
      [] lock = "RLock" -> [dmutex EXCEPT !.r = @ \cup {t}]
      [] OTHER          -> dmutex

\* the operation is entered and its lock call, if it makes one, returns
CollectionEnter(t, op, name) ==
    /\ pc[t] = "idle"
    /\ CollectionPrograms[op].lock = "Lock" => CanLock(dmutex)
    /\ CollectionPrograms[op].lock = "RLock" => CanRLock(dmutex)
    /\ dmutex' = CollectionLocked(t, CollectionPrograms[op].lock)
    /\ local' = [local EXCEPT ![t] = [NoLocal EXCEPT !.name = op, !.call.id = name]]
    /\ pc' = [pc EXCEPT ![t] = "collections.access"]
    /\ UNCHANGED <<engineVars, elock, cmutex, version, fileVersion>>

\* db.Collections after the operation's statement on it
CollectionsAfter(db, access, name) ==
    CASE access = "add"    -> CreateCollection(db, name).db
      [] access = "remove" -> [db EXCEPT !.Collections = Remove(@, name)]
      [] OTHER             -> db

\* the operation's statement on db.Collections
CollectionAccess(t) ==
    /\ pc[t] = "collections.access"
    /\ heap' = [heap EXCEPT ![1] = CollectionsAfter(@, CollectionPrograms[local[t].name].access,
                                                     local[t].call.id)]
    /\ pc' = [pc EXCEPT ![t] = "collections.leave"]
    /\ UNCHANGED <<databases, files, now, last, local, elock, dmutex, cmutex, version,
                   fileVersion>>

\* the deferred unlock, if any, and the return
CollectionLeave(t) ==
    /\ pc[t] = "collections.leave"
    /\ dmutex' = [r |-> dmutex.r \ {t}, w |-> IF dmutex.w = t THEN 0 ELSE dmutex.w]
    /\ last' = Call(local[t].name, local[t].call.id, "", NoValue, "", <<>>)
    /\ pc' = [pc EXCEPT ![t] = "idle"]
    /\ local' = [local EXCEPT ![t] = NoLocal]
    /\ UNCHANGED <<heap, databases, files, now, elock, cmutex, version, fileVersion>>

StepCollectionEnter ==
    \E t \in Threads, op \in DOMAIN CollectionPrograms, name \in CollectionNames :
        CollectionEnter(t, op, name)
StepCollectionAccess == \E t \in Threads : CollectionAccess(t)
StepCollectionLeave == \E t \in Threads : CollectionLeave(t)

NextCollections ==
    \/ StepCollectionEnter
    \/ StepCollectionAccess
    \/ StepCollectionLeave

SpecCollections == InitColl /\ [][NextCollections]_vars

\* C32: a thread about to add or remove a collection holds the database's
\* write lock, and a thread about to read the collections map holds its
\* read lock.
C32_CollectionsMapLocked ==
    \A t \in Threads :
        pc[t] = "collections.access" =>
            IF CollectionPrograms[local[t].name].access \in {"add", "remove"}
            THEN dmutex.w = t
            ELSE t \in dmutex.r

(***************************************************************************)
(* SpecEngine: the engine's databases, their files and their backups       *)
(***************************************************************************)
BackupDir == "backups"

\* filepath.Join(bm.backupDir, dbName_backupName_timestamp.tar.gz)
BackupPath(dbName, backupName, t) ==
    [dir |-> BackupDir, base |-> dbName, ext |-> ".tar.gz",
     backup |-> backupName, stamp |-> t]

\* saveDatabase that writes nothing
saveDatabase_skip(fs, db) == fs

\* saveDatabase: the marshalled database written to db.Path
saveDatabase(fs, db) == Put(fs, db.Path, marshalDatabase(db))

\* loadDatabase: the file of the name unmarshalled into a new object,
\* which is registered
loadDatabase(hp, dbs, fs, name) ==
    IF DbPath(name) \notin DOMAIN fs
    THEN [err |-> "NotFound", db |-> 0, heap |-> hp, databases |-> dbs]
    ELSE [err |-> "", db |-> Len(hp) + 1,
          heap |-> Append(hp, unmarshalDatabase(fs[DbPath(name)])),
          databases |-> Put(dbs, name, Len(hp) + 1)]

\* GetDatabase: the registered object, else the one loaded from the file
GetDatabase(hp, dbs, fs, name) ==
    IF name \in DOMAIN dbs
    THEN [err |-> "", db |-> dbs[name], heap |-> hp, databases |-> dbs]
    ELSE loadDatabase(hp, dbs, fs, name)

\* the *.enosql files of the data directory, as filepath.Glob matches them
GlobFiles(fs) == {q \in DOMAIN fs : q.dir = DataDir /\ q.ext = ".enosql"}

\* the loop over the files that appends every base name
RECURSIVE appendFiles_all(_, _, _)
appendFiles_all(names, glob, i) ==
    IF i = 0 THEN names
    ELSE Append(appendFiles_all(names, glob, i - 1), glob[i].base)

\* ListDatabases, the loop over the files: the base name without .enosql is
\* appended unless the names hold it already
RECURSIVE appendFiles(_, _, _)
appendFiles(names, glob, i) ==
    IF i = 0 THEN names
    ELSE LET prev == appendFiles(names, glob, i - 1)
         IN  IF \E k \in 1..Len(prev) : prev[k] = glob[i].base
             THEN prev
             ELSE Append(prev, glob[i].base)

\* ListDatabases that lists every file after the registered names
ListDatabases_all(dbs, fs, ord, glob) == appendFiles_all(ord, glob, Len(glob))

\* ListDatabases: the registered names in the order ord of the range over
\* the map, then the files in the order glob
ListDatabases(dbs, fs, ord, glob) == appendFiles(ord, glob, Len(glob))

\* every list ListDatabases may return
Listings(dbs, fs) ==
    {ListDatabases(dbs, fs, ord, glob) :
        ord \in Orders(DOMAIN dbs), glob \in Orders(GlobFiles(fs))}

MetadataName == [base |-> "metadata", ext |-> ".json"]

\* the members CreateBackup writes to the archive
tarMembers(db, dbName, backupName, t) ==
    << [Name |-> [base |-> dbName, ext |-> ".enosql"], Body |-> marshalDatabase(db)],
       [Name |-> MetadataName,
        Body |-> [database |-> dbName, backup |-> backupName,
                  timestamp |-> marshalTime(t), version |-> "1.0"]] >>

\* member bodies that are no database: bytes json.Unmarshal rejects, and
\* no bytes at all
BadJSON == [bad |-> TRUE]
EmptyBody == [empty |-> TRUE]

\* len(dbData) == 0
isEmpty(body) == "empty" \in DOMAIN body

\* json.Unmarshal(dbData, &db) returns no error
jsonValid(body) == "bad" \notin DOMAIN body /\ "empty" \notin DOMAIN body

\* the loop that takes the body of any member other than metadata.json
RECURSIVE readMembers_any(_, _)
readMembers_any(members, i) ==
    IF i = 0 THEN [found |-> FALSE, dbData |-> <<>>]
    ELSE IF members[i].Name # MetadataName
    THEN [found |-> TRUE, dbData |-> members[i].Body]
    ELSE readMembers_any(members, i - 1)

\* the loop of RestoreBackup over the members: the body of the last member
\* other than metadata.json whose extension is .enosql
RECURSIVE readMembers(_, _)
readMembers(members, i) ==
    IF i = 0 THEN [found |-> FALSE, dbData |-> <<>>]
    ELSE IF members[i].Name # MetadataName /\ members[i].Name.ext = ".enosql"
    THEN [found |-> TRUE, dbData |-> members[i].Body]
    ELSE readMembers(members, i - 1)

\* the names and data callers of the engine use
DbNames == {"orig", "copy"}
EngineDatas == {[x \in {"f"} |-> IntV(1)], [x \in {"f"} |-> StrV(<<"1">>)]}

\* a new engine over an empty data directory
InitEngine ==
    /\ heap = <<>>
    /\ databases = EmptyMap
    /\ files = EmptyMap
    /\ now = MaxClock
    /\ last = Call("", "", "", NoValue, "", <<>>)
    /\ InitThreads

EngCreateDatabase ==
    /\ \E name \in DbNames :
           IF name \in DOMAIN databases
           THEN /\ last' = Call("CreateDatabase", name, "", NoValue, "AlreadyExists", <<>>)
                /\ UNCHANGED <<heap, databases, files>>
           ELSE /\ Len(heap) < MaxObjects
                /\ heap' = Append(heap, NewDatabase(name))
                /\ databases' = Put(databases, name, Len(heap) + 1)
                /\ files' = saveDatabase(files, NewDatabase(name))
                /\ last' = Call("CreateDatabase", name, "", NoValue, "", <<>>)
    /\ UNCHANGED now
    /\ UNCHANGED threadVars

EngGetDatabase ==
    /\ \E name \in DbNames :
           LET r == GetDatabase(heap, databases, files, name)
           IN  /\ Len(r.heap) <= MaxObjects
               /\ heap' = r.heap
               /\ databases' = r.databases
               /\ last' = Call("GetDatabase", name, "", NoValue, r.err, <<r.db>>)
    /\ UNCHANGED <<files, now>>
    /\ UNCHANGED threadVars

EngCreateCollection ==
    Mutation(\E name \in DOMAIN databases :
                 DoCreateCollection(databases[name], "items"))

EngInsert ==
    Mutation(\E name \in DOMAIN databases :
                 \E cn \in DOMAIN heap[databases[name]].Collections, data \in EngineDatas :
                     DoInsert(databases[name], cn, "a", data))

EngCreateIndex ==
    Mutation(\E name \in DOMAIN databases :
                 \E cn \in DOMAIN heap[databases[name]].Collections :
                     DoCreateIndex(databases[name], cn, "f"))

\* SaveDatabase with no other call in progress
EngSaveDatabase ==
    /\ \E name \in DbNames :
           IF name \notin DOMAIN databases
           THEN /\ last' = Call("SaveDatabase", name, "", NoValue, "NotFound", <<>>)
                /\ UNCHANGED files
           ELSE /\ files' = saveDatabase(files, heap[databases[name]])
                /\ last' = Call("SaveDatabase", name, "", NoValue, "", <<>>)
    /\ UNCHANGED <<heap, databases, now>>
    /\ UNCHANGED threadVars

\* DeleteDatabase: the name leaves the registry and the file is removed; a
\* missing file is no error
EngDeleteDatabase ==
    /\ \E name \in DbNames :
           /\ databases' = Remove(databases, name)
           /\ files' = Remove(files, DbPath(name))
           /\ last' = Call("DeleteDatabase", name, "", NoValue, "", <<>>)
    /\ UNCHANGED <<heap, now>>
    /\ UNCHANGED threadVars

\* the process ends and NewEngine starts over the same data directory; the
\* objects of the engine before stay in the heap, registered nowhere
EngNewEngine ==
    /\ databases # EmptyMap
    /\ databases' = EmptyMap
    /\ last' = Call("NewEngine", "", "", NoValue, "", <<>>)
    /\ UNCHANGED <<heap, files, now>>
    /\ UNCHANGED threadVars

EngCreateBackup ==
    /\ \E dbName \in DbNames, t \in Later(now) :
           LET r == GetDatabase(heap, databases, files, dbName)
               backupPath == BackupPath(dbName, "nightly", t)
           IN  /\ Len(r.heap) <= MaxObjects
               /\ heap' = r.heap
               /\ databases' = r.databases
               /\ now' = t
               /\ IF r.err # ""
                  THEN /\ last' = Call("CreateBackup", dbName, "", NoValue, r.err, <<>>)
                       /\ UNCHANGED files
                  ELSE /\ files' = Put(files, backupPath,
                                       tarMembers(r.heap[r.db], dbName, "nightly", t))
                       /\ last' = Call("CreateBackup", dbName, "", NoValue, "",
                                       <<backupPath>>)
    /\ UNCHANGED threadVars

EngRestoreBackup ==
    /\ \E dbName \in DbNames, newDbName \in DbNames :
           LET backupPath == BackupPath(dbName, "nightly", now)
               r  == readMembers(files[backupPath], Len(files[backupPath]))
               db == [unmarshalDatabase(r.dbData) EXCEPT
                         !.Name = newDbName, !.Path = DbPath(newDbName)]
           IN  IF backupPath \notin DOMAIN files
               THEN /\ last' = Call("RestoreBackup", newDbName, "", NoValue, "NotFound",
                                    <<backupPath>>)
                    /\ UNCHANGED <<heap, databases, files>>
               ELSE IF ~r.found \/ isEmpty(r.dbData) \/ ~jsonValid(r.dbData)
               THEN /\ last' = Call("RestoreBackup", newDbName, "", NoValue, "Malformed",
                                    <<backupPath>>)
                    /\ UNCHANGED <<heap, databases, files>>
               ELSE /\ Len(heap) < MaxObjects
                    /\ heap' = Append(heap, db)
                    /\ databases' = Put(databases, newDbName, Len(heap) + 1)
                    /\ files' = saveDatabase(files, db)
                    /\ last' = Call("RestoreBackup", newDbName, "", NoValue, "",
                                    <<backupPath>>)
    /\ UNCHANGED now
    /\ UNCHANGED threadVars

EngListDatabases ==
    /\ \E names \in Listings(databases, files) :
           last' = Call("ListDatabases", "", "", NoValue, "", names)
    /\ UNCHANGED <<heap, databases, files, now>>
    /\ UNCHANGED threadVars

NextEngine ==
    \/ EngCreateDatabase
    \/ EngGetDatabase
    \/ EngCreateCollection
    \/ EngInsert
    \/ EngCreateIndex
    \/ EngSaveDatabase
    \/ EngDeleteDatabase
    \/ EngNewEngine
    \/ EngCreateBackup
    \/ EngRestoreBackup
    \/ EngListDatabases

SpecEngine == InitEngine /\ [][NextEngine]_vars

\* C35: CreateDatabase(name), called while the file of the name holds a
\* database with collections that the engine has not loaded, does not leave
\* the file holding an empty database.
C35_CreateKeepsStoredDatabase ==
    [][(/\ last'.op = "CreateDatabase"
        /\ last'.id \notin DOMAIN databases
        /\ DbPath(last'.id) \in DOMAIN files
        /\ unmarshalDatabase(files[DbPath(last'.id)]).Collections # EmptyMap) =>
           /\ DbPath(last'.id) \in DOMAIN files'
           /\ unmarshalDatabase(files'[DbPath(last'.id)]).Collections # EmptyMap]_vars

(***************************************************************************)
(* SpecBackup: CreateBackup and the size it reports                        *)
(***************************************************************************)
\* Sizes are counted in the writes that have reached the archive file, each
\* of which adds at least one byte: the gzip header, then for every member
\* its tar header and its body, then the tar trailer and the gzip trailer
\* the two deferred Close calls write.
WritesBeforeClose(members) == 1 + 2 * Len(members)

\* the size of the finished archive, as getBackupInfo reads it with
\* file.Stat() for ListBackups
archiveSize(members) == WritesBeforeClose(members) + 2

\* file.Stat() in CreateBackup, before the deferred tarWriter.Close() and
\* gzWriter.Close() run: the gzip header is in the file, the compressor
\* may still buffer any of the later writes
statSizes(members) == 1..WritesBeforeClose(members)

BackupInfo(backupPath, size) == [Path |-> backupPath, Size |-> size]

\* CreateBackup with the BackupInfo it returns
StepCreateBackup ==
    /\ \E dbName \in DbNames, t \in Later(now) :
           LET r == GetDatabase(heap, databases, files, dbName)
               backupPath == BackupPath(dbName, "nightly", t)
           IN  /\ Len(r.heap) <= MaxObjects
               /\ heap' = r.heap
               /\ databases' = r.databases
               /\ now' = t
               /\ IF r.err # ""
                  THEN /\ last' = Call("CreateBackup", dbName, "", NoValue, r.err, <<>>)
                       /\ UNCHANGED files
                  ELSE /\ files' = Put(files, backupPath,
                                       tarMembers(r.heap[r.db], dbName, "nightly", t))
                       /\ \E size \in statSizes(tarMembers(r.heap[r.db], dbName,
                                                            "nightly", t)) :
                              last' = Call("CreateBackup", dbName, "", NoValue, "",
                                           BackupInfo(backupPath, size))
    /\ UNCHANGED threadVars

NextBackup ==
    \/ EngCreateDatabase
    \/ EngCreateCollection
    \/ EngInsert
    \/ EngNewEngine
    \/ StepCreateBackup

SpecBackup == InitEngine /\ [][NextBackup]_vars

\* C38: the size in the BackupInfo CreateBackup returns is the size of the
\* finished archive, the one ListBackups reports for it.
C38_BackupSizeIsFinal ==
    (last.op = "CreateBackup" /\ last.err = "") =>
        last.result.Size = archiveSize(files[last.result.Path])

(***************************************************************************)
(* SpecRegister: threads calling AuthService.Register                      *)
(***************************************************************************)
Usernames == {StrV(<<"u">>), StrV(<<"v">>)}
Emails == {StrV(<<"e">>), StrV(<<"g">>)}

\* the system database as NewAuthService leaves it: the collection users
\* with its indexes on username and email
InitRegister ==
    /\ heap = <<[NewDatabase("system") EXCEPT
                    !.Collections = Put(@, "users",
                        CreateIndex(CreateIndex(NewCollection("users"), "username", <<>>),
                                    "email", <<>>))]>>
    /\ databases = Put(EmptyMap, "system", 1)
    /\ files = EmptyMap
    /\ now = MaxClock
    /\ last = Call("", "", "", NoValue, "", <<>>)
    /\ InitThreads

\* Register is entered with a request that passes the checks on empty
\* fields and on the length of the password
RegisterStart(t, username, email) ==
    /\ pc[t] = "idle"
    /\ local' = [local EXCEPT ![t] =
                    [NoLocal EXCEPT !.name = "Register",
                                    !.call.data = [username |-> username, email |-> email]]]
    /\ pc' = [pc EXCEPT ![t] = "register.username"]
    /\ UNCHANGED <<engineVars, elock, dmutex, cmutex, version, fileVersion>>

\* Register returns to its caller
RegisterReturn(t, id, message) ==
    /\ last' = Call("Register", id, "", local[t].call.data.username, message, <<>>)
    /\ pc' = [pc EXCEPT ![t] = "idle"]
    /\ local' = [local EXCEPT ![t] = NoLocal]

\* usersCollection.Find(field, ...): a hit ends the call with the message,
\* a miss goes on to the next statement
RegisterFind(t, at, field, message, next) ==
    /\ pc[t] = at
    /\ IF Find(Coll(1, "users"), field, local[t].call.data[field], <<>>) # <<>>
       THEN RegisterReturn(t, "", message)
       ELSE /\ pc' = [pc EXCEPT ![t] = next]
            /\ UNCHANGED <<last, local>>
    /\ UNCHANGED <<heap, databases, files, now, elock, dmutex, cmutex, version, fileVersion>>

\* usersCollection.Insert(userID, userData) with the id generateID drew
\* (of userData the two fields Register checks are kept; the password hash,
\* the salt, the dates and is_active are read by no step of Register)
RegisterInsert(t) ==
    /\ pc[t] = "register.insert"
    /\ \E userID \in Ids \ DOMAIN Coll(1, "users").Documents :
           /\ heap' = SetColl(1, "users",
                          Insert(Coll(1, "users"), userID, local[t].call.data, now, now).c)
           /\ local' = [local EXCEPT ![t].call.id = userID]
    /\ pc' = [pc EXCEPT ![t] = "register.save"]
    /\ UNCHANGED <<databases, files, now, last, elock, dmutex, cmutex, version, fileVersion>>

\* a.engine.SaveDatabase("system") and the return
RegisterSave(t) ==
    /\ pc[t] = "register.save"
    /\ files' = saveDatabase(files, heap[1])
    /\ RegisterReturn(t, local[t].call.id, "")
    /\ UNCHANGED <<heap, databases, now, elock, dmutex, cmutex, version, fileVersion>>

StepRegisterStart ==
    \E t \in Threads, username \in Usernames, email \in Emails :
        RegisterStart(t, username, email)
StepRegisterFindUsername ==
    \E t \in Threads : RegisterFind(t, "register.username", "username",
                                     "Username already exists", "register.email")
StepRegisterFindEmail ==
    \E t \in Threads : RegisterFind(t, "register.email", "email",
                                     "Email already exists", "register.insert")
StepRegisterInsert == \E t \in Threads : RegisterInsert(t)
StepRegisterSave == \E t \in Threads : RegisterSave(t)

NextRegister ==
    \/ StepRegisterStart
    \/ StepRegisterFindUsername
    \/ StepRegisterFindEmail
    \/ StepRegisterInsert
    \/ StepRegisterSave

SpecRegister == InitRegister /\ [][NextRegister]_vars

\* C39: the users collection never holds two documents with the same
\* username or the same email.
C39_UniqueUsers ==
    \A a, b \in DOMAIN Coll(1, "users").Documents :
        a # b =>
            /\ Coll(1, "users").Documents[a].Data.username
                   # Coll(1, "users").Documents[b].Data.username
            /\ Coll(1, "users").Documents[a].Data.email
                   # Coll(1, "users").Documents[b].Data.email

(***************************************************************************)
(* SpecSession: threads calling Login, ValidateSession and Logout          *)
(***************************************************************************)
\* the sessions last SessionLife readings of the clock (24 hours)
SessionLife == 1

Passwords == {<<"p">>, <<"q">>}

\* t.Format(time.RFC3339) and time.Parse(time.RFC3339, s) on the instants
\* of the clock
timeToString(t) == FormatInt(t)
stringToTime(s) == CHOOSE t \in 0..(MaxClock + SessionLife) : FormatInt(t) = s

\* hex(sha256(password + salt)); the digest is one-to-one on these inputs
hashPassword(password, salt) == password \o salt
verifyPassword(password, salt, storedHash) == hashPassword(password, salt) = storedHash

\* the user Register stored before the calls begin
RegisteredUser ==
    [username      |-> StrV(<<"u">>),
     email         |-> StrV(<<"e">>),
     password_hash |-> StrV(hashPassword(<<"p">>, <<"s">>)),
     salt          |-> StrV(<<"s">>),
     created_at    |-> StrV(timeToString(0)),
     last_login    |-> StrV(<<>>),
     is_active     |-> BoolV(TRUE)]

\* a.sessions, the map of the AuthService, is the second object of the heap
Sessions == heap[2]
SetSessions(m) == [heap EXCEPT ![2] = m]

\* the system database as NewAuthService leaves it, with one registered
\* user, and an empty a.sessions
InitSession ==
    /\ heap = <<[NewDatabase("system") EXCEPT
                    !.Collections =
                        Put(Put(@, "users",
                                Insert(CreateIndex(CreateIndex(NewCollection("users"),
                                                               "username", <<>>),
                                                   "email", <<>>),
                                       "user", RegisteredUser, 0, 0).c),
                            "sessions",
                            CreateIndex(NewCollection("sessions"), "user_id", <<>>))],
                EmptyMap>>
    /\ databases = Put(EmptyMap, "system", 1)
    /\ files = EmptyMap
    /\ now = 0
    /\ last = Call("", "", "", NoValue, "", <<>>)
    /\ InitThreads

\* a call of the AuthService returns to its caller
SessionReturn(t, op, id, message, result) ==
    /\ last' = Call(op, id, "", NoValue, message, result)
    /\ pc' = [pc EXCEPT ![t] = "idle"]
    /\ local' = [local EXCEPT ![t] = NoLocal]

\* the ids generateSessionID does not draw again: 32 random bytes differ
\* from every id a session has and from every id a caller is passing
usedSessionIDs ==
    DOMAIN Sessions \cup DOMAIN Coll(1, "sessions").Documents
        \cup {local[t].call.id : t \in Threads}

\* Login up to a.sessions[sessionID] = session: the user is looked up, the
\* password verified, is_active checked, and the session generateSessionID
\* named is stored in memory
LoginStart(t, username, password) ==
    /\ pc[t] = "idle"
    /\ LET userDocs == Find(Coll(1, "users"), "username", username, <<>>)
       IN  IF userDocs = <<>>
           THEN /\ SessionReturn(t, "Login", "", "Invalid username or password", <<>>)
                /\ UNCHANGED heap
           ELSE LET userDoc == Coll(1, "users").Documents[userDocs[1]]
                IN  IF ~verifyPassword(password, userDoc.Data.salt.v,
                                       userDoc.Data.password_hash.v)
                    THEN /\ SessionReturn(t, "Login", "",
                                          "Invalid username or password", <<>>)
                         /\ UNCHANGED heap
                    ELSE IF userDoc.Data.is_active # BoolV(TRUE)
                    THEN /\ SessionReturn(t, "Login", "", "Account is inactive", <<>>)
                         /\ UNCHANGED heap
                    ELSE \E sessionID \in Ids \ usedSessionIDs :
                            LET session == [ID        |-> sessionID,
                                            UserID    |-> userDoc.ID,
                                            Username  |-> username.v,
                                            CreatedAt |-> timeToString(now),
                                            ExpiresAt |-> timeToString(now + SessionLife),
                                            IsActive  |-> TRUE]
                            IN  /\ heap' = SetSessions(Put(Sessions, sessionID, session))
                                /\ local' = [local EXCEPT ![t] =
                                       [NoLocal EXCEPT !.name = "Login",
                                                       !.call.id = sessionID,
                                                       !.call.field = userDoc.ID,
                                                       !.result = <<session>>]]
                                /\ pc' = [pc EXCEPT ![t] = "login.insert"]
                                /\ UNCHANGED last
    /\ UNCHANGED <<databases, files, now, elock, dmutex, cmutex, version, fileVersion>>

\* sessionsCollection.Insert(sessionID, sessionData)
LoginInsert(t) ==
    /\ pc[t] = "login.insert"
    /\ LET session == local[t].result[1]
           sessionData == [user_id    |-> StrV(session.UserID),
                           username   |-> StrV(session.Username),
                           created_at |-> StrV(session.CreatedAt),
                           expires_at |-> StrV(session.ExpiresAt),
                           is_active  |-> BoolV(session.IsActive)]
           ins == Insert(Coll(1, "sessions"), session.ID, sessionData, now, now)
       IN  IF ins.err # ""
           THEN /\ SessionReturn(t, "Login", "", "failed to save session", <<>>)
                /\ UNCHANGED heap
           ELSE /\ heap' = SetColl(1, "sessions", ins.c)
                /\ pc' = [pc EXCEPT ![t] = "login.update"]
                /\ UNCHANGED <<last, local>>
    /\ UNCHANGED <<databases, files, now, elock, dmutex, cmutex, version, fileVersion>>

\* userDoc.Data["last_login"] = ...; usersCollection.Update(userDoc.ID, userDoc.Data)
LoginUpdate(t) ==
    /\ pc[t] = "login.update"
    /\ LET userID == local[t].call.field
           upd == Update(Coll(1, "users"), userID,
                         [Coll(1, "users").Documents[userID].Data
                             EXCEPT !.last_login = StrV(timeToString(now))], now)
       IN  IF upd.err # ""
           THEN /\ SessionReturn(t, "Login", "", "failed to update last login", <<>>)
                /\ UNCHANGED heap
           ELSE /\ heap' = SetColl(1, "users", upd.c)
                /\ pc' = [pc EXCEPT ![t] = "login.save"]
                /\ UNCHANGED <<last, local>>
    /\ UNCHANGED <<databases, files, now, elock, dmutex, cmutex, version, fileVersion>>

\* a.engine.SaveDatabase("system") and the successful return
LoginSave(t) ==
    /\ pc[t] = "login.save"
    /\ files' = saveDatabase(files, heap[1])
    /\ SessionReturn(t, "Login", local[t].call.id, "", local[t].result)
    /\ UNCHANGED <<heap, databases, now, elock, dmutex, cmutex, version, fileVersion>>

\* the test ValidateSession makes of a session held in memory
memoryValid(sessions, sessionID, t) ==
    /\ sessionID \in DOMAIN sessions
    /\ sessions[sessionID].IsActive
    /\ t < stringToTime(sessions[sessionID].ExpiresAt)

\* the test ValidateSession makes of the document of a session
documentValid(c, sessionID, t) ==
    /\ sessionID \in DOMAIN c.Documents
    /\ "expires_at" \in DOMAIN c.Documents[sessionID].Data
    /\ c.Documents[sessionID].Data.expires_at.t = "string"
    /\ "is_active" \in DOMAIN c.Documents[sessionID].Data
    /\ c.Documents[sessionID].Data.is_active = BoolV(TRUE)
    /\ t < stringToTime(c.Documents[sessionID].Data.expires_at.v)

\* ValidateSession, the check of memory: a live session is returned, any
\* other is deleted from a.sessions
ValidateMemory(t, sessionID) ==
    /\ pc[t] = "idle"
    /\ IF memoryValid(Sessions, sessionID, now)
       THEN /\ SessionReturn(t, "ValidateSession", sessionID, "",
                             <<Sessions[sessionID]>>)
            /\ UNCHANGED heap
       ELSE /\ heap' = SetSessions(Remove(Sessions, sessionID))
            /\ local' = [local EXCEPT ![t] =
                   [NoLocal EXCEPT !.name = "ValidateSession", !.call.id = sessionID]]
            /\ pc' = [pc EXCEPT ![t] = "validate.scan"]
            /\ UNCHANGED last
    /\ UNCHANGED <<databases, files, now, elock, dmutex, cmutex, version, fileVersion>>

\* ValidateSession, the loop over sessionsCollection.GetAll()
ValidateScan(t) ==
    /\ pc[t] = "validate.scan"
    /\ LET sessionID == local[t].call.id
           c == Coll(1, "sessions")
       IN  IF documentValid(c, sessionID, now)
           THEN LET sessionDoc == c.Documents[sessionID]
                IN  /\ local' = [local EXCEPT ![t].result =
                           <<[ID        |-> sessionDoc.ID,
                              UserID    |-> sessionDoc.Data.user_id.v,
                              Username  |-> sessionDoc.Data.username.v,
                              CreatedAt |-> sessionDoc.Data.created_at.v,
                              ExpiresAt |-> sessionDoc.Data.expires_at.v,
                              IsActive  |-> TRUE]>>]
                    /\ pc' = [pc EXCEPT ![t] = "validate.store"]
                    /\ UNCHANGED last
           ELSE SessionReturn(t, "ValidateSession", sessionID,
                              "session not found or expired", <<>>)
    /\ UNCHANGED <<heap, databases, files, now, elock, dmutex, cmutex, version, fileVersion>>

\* ValidateSession: a.sessions[sessionID] = session; return session, nil
ValidateStore(t) ==
    /\ pc[t] = "validate.store"
    /\ heap' = SetSessions(Put(Sessions, local[t].call.id, local[t].result[1]))
    /\ SessionReturn(t, "ValidateSession", local[t].call.id, "", local[t].result)
    /\ UNCHANGED <<databases, files, now, elock, dmutex, cmutex, version, fileVersion>>

\* Logout: delete(a.sessions, sessionID)
LogoutMemory(t, sessionID) ==
    /\ pc[t] = "idle"
    /\ heap' = SetSessions(Remove(Sessions, sessionID))
    /\ local' = [local EXCEPT ![t] =
           [NoLocal EXCEPT !.name = "Logout", !.call.id = sessionID]]
    /\ pc' = [pc EXCEPT ![t] = "logout.update"]
    /\ UNCHANGED <<databases, files, now, last, elock, dmutex, cmutex, version, fileVersion>>

\* Logout: the document of the session gets is_active = false and is
\* handed to Update; a session without a document is passed over
LogoutUpdate(t) ==
    /\ pc[t] = "logout.update"
    /\ LET sessionID == local[t].call.id
           c == Coll(1, "sessions")
       IN  IF sessionID \in DOMAIN c.Documents
           THEN heap' = SetColl(1, "sessions",
                           Update(c, sessionID,
                                  [c.Documents[sessionID].Data
                                      EXCEPT !.is_active = BoolV(FALSE)], now).c)
           ELSE UNCHANGED heap
    /\ pc' = [pc EXCEPT ![t] = "logout.save"]
    /\ UNCHANGED <<databases, files, now, last, local, elock, dmutex, cmutex,
                   version, fileVersion>>

\* Logout: return a.engine.SaveDatabase("system")
LogoutSave(t) ==
    /\ pc[t] = "logout.save"
    /\ files' = saveDatabase(files, heap[1])
    /\ SessionReturn(t, "Logout", local[t].call.id, "", <<>>)
    /\ UNCHANGED <<heap, databases, now, elock, dmutex, cmutex, version, fileVersion>>

\* time passes
SessionTick ==
    /\ now < MaxClock
    /\ now' = now + 1
    /\ UNCHANGED <<heap, databases, files, last, threadVars>>

StepLoginStart ==
    \E t \in Threads, username \in Usernames, password \in Passwords :
        LoginStart(t, username, password)
StepLoginInsert == \E t \in Threads : LoginInsert(t)
StepLoginUpdate == \E t \in Threads : LoginUpdate(t)
StepLoginSave == \E t \in Threads : LoginSave(t)
StepValidateMemory == \E t \in Threads, sessionID \in Ids : ValidateMemory(t, sessionID)
StepValidateScan == \E t \in Threads : ValidateScan(t)
StepValidateStore == \E t \in Threads : ValidateStore(t)
StepLogoutMemory == \E t \in Threads, sessionID \in Ids : LogoutMemory(t, sessionID)
StepLogoutUpdate == \E t \in Threads : LogoutUpdate(t)
StepLogoutSave == \E t \in Threads : LogoutSave(t)

NextSession ==
    \/ StepLoginStart
    \/ StepLoginInsert
    \/ StepLoginUpdate
    \/ StepLoginSave
    \/ StepValidateMemory
    \/ StepValidateScan
    \/ StepValidateStore
    \/ StepLogoutMemory
    \/ StepLogoutUpdate
    \/ StepLogoutSave
    \/ SessionTick

SpecSession == InitSession /\ [][NextSession]_vars

\* a call ValidateSession(sessionID) begun now and left alone returns a session
validates(sessionID) ==
    \/ memoryValid(Sessions, sessionID, now)
    \/ documentValid(Coll(1, "sessions"), sessionID, now)

\* Logout has set is_active = false on the document of sessionID and every
\* Logout(sessionID) has returned
loggedOut(sessionID) ==
    /\ sessionID \in DOMAIN Coll(1, "sessions").Documents
    /\ Coll(1, "sessions").Documents[sessionID].Data.is_active = BoolV(FALSE)
    /\ \A t \in Threads : ~(local[t].name = "Logout" /\ local[t].call.id = sessionID)

\* C40: once Logout(sessionID) has returned without error, a call of
\* ValidateSession(sessionID) fails: the session is neither live in
\* a.sessions nor active in the sessions collection.
C40_LoggedOutSessionFails ==
    \A sessionID \in Ids : loggedOut(sessionID) => ~validates(sessionID)

(***************************************************************************)
(* SpecRegistry: GetDatabase, CompactDatabase and DeleteDatabase running   *)
(* together over a data directory an earlier engine has written            *)
(***************************************************************************)
\* the database orig as the earlier engine saved it: one collection with a
\* document and an index
Stored ==
    LET c1 == Insert(NewCollection("items"), "a", [x \in {"f"} |-> IntV(1)],
                     MaxClock, MaxClock).c
    IN  [NewDatabase("orig") EXCEPT
            !.Collections = Put(@, "items", CreateIndex(c1, "f", <<"a">>))]

\* NewEngine over the directory holding the file of orig
InitRegistry ==
    /\ heap = <<>>
    /\ databases = EmptyMap
    /\ files = saveDatabase(EmptyMap, Stored)
    /\ now = MaxClock
    /\ last = Call("", "", "", NoValue, "", <<>>)
    /\ InitThreads

\* GetDatabase, called directly or as the first statement of
\* CompactDatabase: e.mutex.RLock() and the lookup of the name; data keeps
\* the call that had returned last when this one started
GetStart(t, op, name) ==
    /\ pc[t] = "idle"
    /\ CanRLock(elock)
    /\ elock' = [elock EXCEPT !.r = @ \cup {t}]
    /\ local' = [local EXCEPT ![t] =
                    [NoLocal EXCEPT !.name = name, !.call.op = op, !.data = last,
                                    !.db = IF name \in DOMAIN databases
                                           THEN databases[name] ELSE 0]]
    /\ pc' = [pc EXCEPT ![t] = IF name \in DOMAIN databases THEN "get.return"
                               ELSE "get.load"]
    /\ UNCHANGED <<engineVars, dmutex, cmutex, version, fileVersion>>

\* loadDatabase up to json.Unmarshal: the object read from the file
GetLoad(t) ==
    /\ pc[t] = "get.load"
    /\ LET r == loadDatabase(heap, databases, files, local[t].name)
       IN  /\ Len(r.heap) <= MaxObjects
           /\ heap' = r.heap
           /\ local' = [local EXCEPT ![t].db = r.db, ![t].err = r.err]
           /\ pc' = [pc EXCEPT ![t] = IF r.err = "" THEN "get.register" ELSE "get.return"]
    /\ UNCHANGED <<databases, files, now, last, elock, dmutex, cmutex, version, fileVersion>>

\* loadDatabase: e.databases[name] = &db, written under the read lock
GetRegister(t) ==
    /\ pc[t] = "get.register"
    /\ databases' = Put(databases, local[t].name, local[t].db)
    /\ pc' = [pc EXCEPT ![t] = "get.return"]
    /\ UNCHANGED <<heap, files, now, last, local, elock, dmutex, cmutex, version,
                   fileVersion>>

\* the deferred e.mutex.RUnlock() and the return of GetDatabase, to its
\* caller or into CompactDatabase
GetReturn(t) ==
    /\ pc[t] = "get.return"
    /\ elock' = [elock EXCEPT !.r = @ \ {t}]
    /\ IF local[t].call.op = "CompactDatabase" /\ local[t].err = ""
       THEN /\ pc' = [pc EXCEPT ![t] = "compact.lock"]
            /\ UNCHANGED <<last, local>>
       ELSE /\ last' = Call(local[t].call.op, local[t].name, "", NoValue, local[t].err,
                            <<local[t].db>>)
            /\ pc' = [pc EXCEPT ![t] = "idle"]
            /\ local' = [local EXCEPT ![t] = NoLocal]
    /\ UNCHANGED <<heap, databases, files, now, dmutex, cmutex, version, fileVersion>>

\* the orders in which CompactDatabase may visit the documents of each
\* collection of db, one for every index it builds
CompactOrders(db) ==
    LET all == UNION {[DOMAIN db.Collections[cn].Indexes ->
                          Orders(DOMAIN db.Collections[cn].Documents)] :
                          cn \in DOMAIN db.Collections}
    IN  {o \in [DOMAIN db.Collections -> all] :
            \A cn \in DOMAIN db.Collections :
                o[cn] \in [DOMAIN db.Collections[cn].Indexes ->
                              Orders(DOMAIN db.Collections[cn].Documents)]}

\* CompactDatabase that leaves every index as it is
compactDatabase_keep(db, ords) == db

\* CompactDatabase: every index of every collection built again
compactDatabase(db, ords) ==
    [db EXCEPT !.Collections =
        [cn \in DOMAIN db.Collections |->
            [db.Collections[cn] EXCEPT !.Indexes =
                [field \in DOMAIN db.Collections[cn].Indexes |->
                    [Field  |-> field,
                     Values |-> buildIndex(db.Collections[cn].Documents, field,
                                           ords[cn][field], Len(ords[cn][field]))]]]]]

\* thread u holds db.mutex of the object h
HoldsDatabase(u, h) == pc[u] \in {"compact.save", "compact.return"} /\ local[u].db = h

\* CompactDatabase: db.mutex.Lock() and the loop over the collections
CompactRebuild(t) ==
    /\ pc[t] = "compact.lock"
    /\ \A u \in Threads : ~HoldsDatabase(u, local[t].db)
    /\ \E ords \in CompactOrders(heap[local[t].db]) :
           heap' = [heap EXCEPT ![local[t].db] = compactDatabase(@, ords)]
    /\ pc' = [pc EXCEPT ![t] = "compact.save"]
    /\ UNCHANGED <<databases, files, now, last, local, elock, dmutex, cmutex, version,
                   fileVersion>>

\* CompactDatabase: e.saveDatabase(db), the engine's lock not held
CompactSave(t) ==
    /\ pc[t] = "compact.save"
    /\ files' = saveDatabase(files, heap[local[t].db])
    /\ pc' = [pc EXCEPT ![t] = "compact.return"]
    /\ UNCHANGED <<heap, databases, now, last, local, elock, dmutex, cmutex, version,
                   fileVersion>>

\* CompactDatabase: the deferred db.mutex.Unlock() and the return
CompactReturn(t) ==
    /\ pc[t] = "compact.return"
    /\ last' = Call("CompactDatabase", local[t].name, "", NoValue, "", <<>>)
    /\ pc' = [pc EXCEPT ![t] = "idle"]
    /\ local' = [local EXCEPT ![t] = NoLocal]
    /\ UNCHANGED <<heap, databases, files, now, elock, dmutex, cmutex, version,
                   fileVersion>>

StepGetDatabase == \E t \in Threads, name \in DbNames : GetStart(t, "GetDatabase", name)
StepCompactDatabase ==
    \E t \in Threads, name \in DbNames : GetStart(t, "CompactDatabase", name)
StepGetLoad == \E t \in Threads : GetLoad(t)
StepGetRegister == \E t \in Threads : GetRegister(t)
StepGetReturn == \E t \in Threads : GetReturn(t)
StepCompactRebuild == \E t \in Threads : CompactRebuild(t)
StepCompactSave == \E t \in Threads : CompactSave(t)
StepCompactReturn == \E t \in Threads : CompactReturn(t)

\* DeleteDatabase between e.mutex.Lock() and the deferred unlock
StepDeleteDatabase == CanLock(elock) /\ EngDeleteDatabase

NextRegistry ==
    \/ StepGetDatabase
    \/ StepCompactDatabase
    \/ StepGetLoad
    \/ StepGetRegister
    \/ StepGetReturn
    \/ StepCompactRebuild
    \/ StepCompactSave
    \/ StepCompactReturn
    \/ StepDeleteDatabase

SpecRegistry == InitRegistry /\ [][NextRegistry]_vars

\* C19: GetDatabase returns the registered handle when the name is cached,
\* fails with NotFound and registers nothing when the file is absent, and
\* returns the handle the GetDatabase of the same name returned that came
\* back last before this call began (no DeleteDatabase can lie between).
C19_SameHandleLater ==
    \A t \in Threads :
        (pc[t] = "get.return" /\ local[t].call.op = "GetDatabase") =>
            /\ local[t].err = "NotFound" =>
                   /\ local[t].name \notin DOMAIN databases
                   /\ DbPath(local[t].name) \notin DOMAIN files
            /\ (/\ local[t].err = ""
                /\ local[t].data.op = "GetDatabase"
                /\ local[t].data.id = local[t].name
                /\ local[t].data.err = "") =>
                   local[t].db = local[t].data.result[1]

\* C20: as long as DeleteDatabase(name) is the call that returned last, so
\* that no create or restore of the name has followed, the name is not
\* registered (SaveDatabase fails with NotFound), its file is gone
\* (GetDatabase fails with NotFound) and ListDatabases does not hold it.
C20_DeletedStaysGone ==
    last.op = "DeleteDatabase" =>
        /\ last.id \notin DOMAIN databases
        /\ DbPath(last.id) \notin DOMAIN files
        /\ \A names \in Listings(databases, files) : last.id \notin Range(names)
        /\ GetDatabase(heap, databases, files, last.id).err = "NotFound"

\* C31: the registry is written only while no thread holds the engine's
\* read lock (the writer holds the write lock, which excludes readers).
C31_RegistryWriteLocked ==
    [][databases' # databases => elock.r = {}]_vars

\* C36: once DeleteDatabase(name) has returned and left no file, the file
\* stays absent and the name stays out of ListDatabases, whatever calls
\* that got the handle earlier do next (no create or restore follows).
C36_DeletedFileStaysAbsent ==
    [][(last.op = "DeleteDatabase" /\ DbPath(last.id) \notin DOMAIN files) =>
          /\ DbPath(last.id) \notin DOMAIN files'
          /\ \A names \in Listings(databases', files') : last.id \notin Range(names)]_vars

\* C37: GetDatabase calls of one name that are about to return together
\* (no DeleteDatabase can have run since the first of them began) return
\* the same handle, the one the registry holds.
C37_ConcurrentGetSameHandle ==
    \A t, u \in Threads :
        (/\ pc[t] = "get.return" /\ pc[u] = "get.return"
         /\ local[t].call.op = "GetDatabase" /\ local[u].call.op = "GetDatabase"
         /\ local[t].name = local[u].name
         /\ local[t].err = "" /\ local[u].err = "") =>
            /\ local[t].db = local[u].db
            /\ databases[local[t].name] = local[t].db

(***************************************************************************)
(* SpecAggregate: Aggregate over collections of documents with a group     *)
(* field g and a number field f                                            *)
(***************************************************************************)
AggValues == [g |-> {IntV(1), StrV(<<"1">>), StrV(<<"a">>)},
              f |-> {IntV(2), StrV(<<"3">>), StrV(<<"a">>)}]

\* the data of a document: each of g and f absent or one of its values
AggDatas ==
    UNION {[fs -> UNION {AggValues.g, AggValues.f}] : fs \in SUBSET {"g", "f"}}

AggDocs ==
    UNION {[S -> {d \in AggDatas : \A k \in DOMAIN d : d[k] \in AggValues[k]}] :
              S \in SUBSET Ids}

\* the keys the groups of these documents can have
AggKeys == {<<"1">>, <<"a">>, NullKey}

CountAndSum == [n |-> AggregateFunc("count", ""), s |-> AggregateFunc("sum", "f")]

Pipelines ==
    {<<GroupStage(id, CountAndSum)>> : id \in {StringID("g"), OtherID}}
      \cup {<<MatchStage(<<Filter("f", op, IntV(2))>>)>> :
                op \in {OpEqual, OpGreaterThan, OpLessThan, OpNotEqual, OpGreaterThanOrEqual}}
      \cup {<<MatchStage(<<Filter("f", OpGreaterThan, IntV(2))>>),
              GroupStage(StringID("g"), [m |-> AggregateFunc(fn, "f")])>> :
                fn \in {"avg", "max", "min", "median"}}
      \cup {<<GroupStage(StringID("g"), [m |-> AggregateFunc("median", "f")])>>}

\* one collection holding the documents, as Insert leaves them
InitAggregate ==
    /\ \E docs \in AggDocs :
           heap = <<[NewDatabase("shop") EXCEPT
                       !.Collections = Put(@, "items",
                           [NewCollection("items") EXCEPT
                               !.Documents = [id \in DOMAIN docs |->
                                   [ID |-> id, Data |-> docs[id],
                                    CreatedAt |-> MaxClock, UpdatedAt |-> MaxClock]]])]>>
    /\ databases = Put(EmptyMap, "shop", 1)
    /\ files = EmptyMap
    /\ now = MaxClock
    /\ last = [op |-> "", err |-> "", pipeline |-> <<>>, items |-> <<>>, result |-> <<>>]
    /\ InitThreads

\* one call in a behaviour: Aggregate only reads, so a second call would
\* start from the collection the first one started from
AggregateCall(pipeline, items, r) ==
    [op |-> "Aggregate", err |-> r.err, pipeline |-> pipeline, items |-> items,
     result |-> r.data]

StepAggregate ==
    /\ last.op = ""
    /\ \E pipeline \in Pipelines, ord \in Orders(DOMAIN Coll(1, "items").Documents),
          rank \in Orders(AggKeys) :
           last' = AggregateCall(pipeline, aggregateItems(Coll(1, "items"), ord),
                                 Aggregate(Coll(1, "items"), pipeline, ord, rank))
    /\ UNCHANGED <<heap, databases, files, now>>
    /\ UNCHANGED threadVars

NextAggregate == StepAggregate

SpecAggregate == InitAggregate /\ [][NextAggregate]_vars

\* the key the claim gives an item under the group ID id
KeyOf(id, item) ==
    IF id.isString /\ id.field \in DOMAIN item THEN Stringify(item[id.field]) ELSE NullKey

\* the f values of the items that parse as numbers, added up
RECURSIVE TotalOf(_, _)
TotalOf(items, i) ==
    IF i = 0 THEN 0
    ELSE TotalOf(items, i - 1)
         + (IF "f" \in DOMAIN items[i] /\ ParseFloat(Stringify(items[i]["f"])).ok
            THEN ParseFloat(Stringify(items[i]["f"])).val ELSE 0)

C25_MatchAndUnknownFunction ==
    last.op = "Aggregate" =>
        /\ (Len(last.pipeline) = 1 /\ last.pipeline[1].kind = "match") =>
               LET filter == last.pipeline[1].Filters[1]
               IN  /\ last.err = ""
                   /\ last.result =
                          IF filter.Operator \in {OpEqual, OpGreaterThan, OpLessThan}
                          THEN SelectSeq(last.items, LAMBDA item :
                                   matchesFilter([Data |-> item], filter))
                          ELSE <<>>
        /\ (\E i \in 1..Len(last.pipeline) :
                /\ last.pipeline[i].kind = "group"
                /\ \E k \in DOMAIN last.pipeline[i].Fields :
                       last.pipeline[i].Fields[k].Operation
                           \notin {"count", "sum", "avg", "max", "min"}) =>
               last.err = "UnknownAggregation" /\ last.result = <<>>

(***************************************************************************)
(* SpecCompact: CompactDatabase among the operations of a collection       *)
(***************************************************************************)
\* CompactDatabase run on its own: GetDatabase, the rebuild, saveDatabase
DoCompactDatabase(name) ==
    LET r == GetDatabase(heap, databases, files, name)
    IN  /\ Len(r.heap) <= MaxObjects
        /\ databases' = r.databases
        /\ IF r.err # ""
           THEN /\ heap' = r.heap
                /\ last' = Call("CompactDatabase", name, "", NoValue, r.err, <<>>)
                /\ UNCHANGED files
           ELSE \E ords \in CompactOrders(r.heap[r.db]) :
                    LET db == compactDatabase(r.heap[r.db], ords)
                    IN  /\ heap' = [r.heap EXCEPT ![r.db] = db]
                        /\ files' = saveDatabase(files, db)
                        /\ last' = Call("CompactDatabase", name, "", NoValue, "", <<>>)
        /\ UNCHANGED now

StepCompact ==
    /\ \E name \in {"shop", "gone"} : DoCompactDatabase(name)
    /\ UNCHANGED threadVars

\* the callers write documents with the field f and index it
CompactInsert ==
    /\ \E id \in Ids, data \in SaveDatas : DoInsert(1, "items", id, data)
    /\ UNCHANGED threadVars
CompactUpdate ==
    /\ \E id \in Ids, data \in SaveDatas : DoUpdate(1, "items", id, data)
    /\ UNCHANGED threadVars
CompactCreateIndex ==
    /\ DoCreateIndex(1, "items", "f")
    /\ UNCHANGED threadVars

NextCompact ==
    \/ CompactInsert
    \/ CompactUpdate
    \/ StepDelete
    \/ CompactCreateIndex
    \/ StepCompact

SpecCompact == InitColl /\ [][NextCompact]_vars

\* every entry of every index of c names a document whose value of the
\* field stringifies to the key, and every document with the field has its
\* stringified value among the keys
IndexesExact(c) ==
    \A field \in DOMAIN c.Indexes :
        /\ \A k \in DOMAIN c.Indexes[field].Values :
               LET id == c.Indexes[field].Values[k]
               IN  /\ id \in DOMAIN c.Documents
                   /\ field \in DOMAIN c.Documents[id].Data
                   /\ Stringify(c.Documents[id].Data[field]) = k
        /\ \A id \in DOMAIN c.Documents :
               field \in DOMAIN c.Documents[id].Data =>
                   Stringify(c.Documents[id].Data[field]) \in DOMAIN c.Indexes[field].Values

\* C23: when CompactDatabase returns successfully, whatever the indexes
\* were before, every collection has the documents and the indexed fields
\* it had, every index entry names a live document whose value stringifies
\* to the key, every document with an indexed field has its value among the
\* keys, and the file holds this state.
C23_CompactRepairs ==
    [][(last'.op = "CompactDatabase" /\ last'.err = "") =>
           LET h == databases'[last'.id]
           IN  /\ DOMAIN heap'[h].Collections = DOMAIN heap[h].Collections
               /\ \A cn \in DOMAIN heap[h].Collections :
                      /\ heap'[h].Collections[cn].Documents = heap[h].Collections[cn].Documents
                      /\ DOMAIN heap'[h].Collections[cn].Indexes
                             = DOMAIN heap[h].Collections[cn].Indexes
                      /\ IndexesExact(heap'[h].Collections[cn])
               /\ heap'[h].Path \in DOMAIN files'
               /\ files'[heap'[h].Path] = marshalDatabase(heap'[h])]_vars

\* CompactDatabase has returned on a collection of two documents sharing a
\* value of an indexed field
C23_Witness ==
    /\ last.op = "CompactDatabase" /\ last.err = ""
    /\ "f" \in DOMAIN Items.Indexes
    /\ Cardinality(DOMAIN Items.Documents) = 2
    /\ \A id \in DOMAIN Items.Documents :
           "f" \in DOMAIN Items.Documents[id].Data
               /\ Stringify(Items.Documents[id].Data["f"]) = <<"1">>

\* C18: CreateDatabase of a registered name fails with AlreadyExists and
\* leaves the registry, the registered database and the files as they
\* were; of any other name it registers a database with no collections
\* and the path data_dir/name.enosql, and when it returns the file of that
\* path holds the snapshot of that empty database.
C18_CreateDatabase ==
    [][last'.op = "CreateDatabase" =>
           LET name == last'.id
           IN  IF name \in DOMAIN databases
               THEN /\ last'.err = "AlreadyExists"
                    /\ databases' = databases
                    /\ heap' = heap
                    /\ files' = files
               ELSE /\ last'.err = ""
                    /\ name \in DOMAIN databases'
                    /\ heap'[databases'[name]] =
                           [Name |-> name, Collections |-> EmptyMap, Path |-> DbPath(name)]
                    /\ DbPath(name) \in DOMAIN files'
                    /\ files'[DbPath(name)] = marshalDatabase(heap'[databases'[name]])
                    /\ unmarshalDatabase(files'[DbPath(name)]).Collections = EmptyMap
                    /\ \A h \in 1..Len(heap) : heap'[h] = heap[h]]_vars

\* CreateDatabase has failed on a registered database that holds a
\* collection and whose file stands, after an earlier success
C18_Witness ==
    /\ last.op = "CreateDatabase"
    /\ last.err = "AlreadyExists"
    /\ heap[databases[last.id]].Collections # EmptyMap
    /\ DbPath(last.id) \in DOMAIN files

(***************************************************************************)
(* SpecRestore: the engine over a backup directory holding an archive      *)
(* someone has put there                                                   *)
(***************************************************************************)
MetadataMember ==
    [Name |-> MetadataName,
     Body |-> [database |-> "orig", backup |-> "nightly",
               timestamp |-> marshalTime(MaxClock), version |-> "1.0"]]

MemberOf(ext, body) == [Name |-> [base |-> "orig", ext |-> ext], Body |-> body]

\* archives RestoreBackup may be pointed at: one CreateBackup wrote, an
\* empty one, one with metadata only, one whose database sits under another
\* extension, one whose .enosql member is no JSON, one whose .enosql member
\* is empty
Archives ==
    {tarMembers(NewDatabase("orig"), "orig", "nightly", MaxClock),
     <<>>,
     <<MetadataMember>>,
     <<MemberOf(".txt", marshalDatabase(NewDatabase("orig"))), MetadataMember>>,
     <<MemberOf(".enosql", BadJSON), MetadataMember>>,
     <<MemberOf(".enosql", EmptyBody), MetadataMember>>}

\* as after CreateDatabase("orig"), with the archive in the backup directory
InitRestore ==
    /\ heap = <<NewDatabase("orig")>>
    /\ databases = Put(EmptyMap, "orig", 1)
    /\ \E archive \in Archives :
           files = Put(saveDatabase(EmptyMap, NewDatabase("orig")),
                       BackupPath("orig", "nightly", MaxClock), archive)
    /\ now = MaxClock
    /\ last = Call("", "", "", NoValue, "", <<>>)
    /\ InitThreads

SpecRestore == InitRestore /\ [][NextEngine]_vars

\* the archive holds no .enosql member whose body parses
NoDatabaseIn(members) ==
    \A i \in 1..Len(members) :
        members[i].Name.ext = ".enosql" => ~jsonValid(members[i].Body)

\* C22: RestoreBackup on an archive with no .enosql member, or with one
\* that does not parse, fails with Malformed and leaves the registry, every
\* registered database and every file as they were.
C22_MalformedRestore ==
    [][(/\ last'.op = "RestoreBackup"
        /\ last'.result[1] \in DOMAIN files
        /\ NoDatabaseIn(files[last'.result[1]])) =>
           /\ last'.err = "Malformed"
           /\ databases' = databases
           /\ heap' = heap
           /\ files' = files]_vars

\* RestoreBackup has failed on an archive whose only database copy sits
\* under another extension
C22_Witness ==
    /\ last.op = "RestoreBackup"
    /\ last.err = "Malformed"
    /\ \E i \in 1..Len(files[last.result[1]]) :
           /\ files[last.result[1]][i].Name.ext = ".txt"
           /\ jsonValid(files[last.result[1]][i].Body)

\* C21: ListDatabases returns every registered name and every name with a
\* *.enosql file in the data directory, and each of them once: a database
\* both cached and on disk appears once, one on disk and never loaded is
\* listed.
C21_ListDatabases ==
    last.op = "ListDatabases" =>
        /\ Range(last.result) = DOMAIN databases \cup {q.base : q \in GlobFiles(files)}
        /\ \A i, j \in 1..Len(last.result) : last.result[i] = last.result[j] => i = j

\* both names are listed, one cached with its file, one only on disk
C21_Witness ==
    /\ last.op = "ListDatabases"
    /\ Len(last.result) = 2
    /\ \E name \in DOMAIN databases : DbPath(name) \in DOMAIN files
    /\ \E q \in GlobFiles(files) : q.base \notin DOMAIN databases

\* C6: for every database D the engine's operations reach, saving D and
\* loading the file in an engine that has not cached D yields a database
\* with the same name, path, collections, documents and index entries.
C6_LoadOfSaveIsEqual ==
    [][\A name \in DbNames :
           (/\ last'.op = "GetDatabase" /\ last'.id = name /\ last'.err = ""
            /\ name \notin DOMAIN databases) =>
               \A h \in 1..Len(heap) :
                   files[DbPath(name)] = marshalDatabase(heap[h]) =>
                       heap'[databases'[name]] = heap[h]]_vars

\* C7: RestoreBackup of an archive CreateBackup wrote registers under the
\* new name a database whose collections, documents and index entries are
\* those of the database at backup time, named new with the path
\* data_dir/new.enosql and its file written; ListDatabases then holds both
\* names and the original is unchanged.
C7_RestoreOfBackupIsEqual ==
    [][(last'.op = "RestoreBackup" /\ last'.err = "") =>
           LET new     == last'.id
               members == files[last'.result[1]]
               copy    == heap'[databases'[new]]
           IN  \A h \in 1..Len(heap) :
                   members[1].Body = marshalDatabase(heap[h]) =>
                       /\ copy.Collections = heap[h].Collections
                       /\ copy.Name = new
                       /\ copy.Path = DbPath(new)
                       /\ DbPath(new) \in DOMAIN files'
                       /\ files'[DbPath(new)] = marshalDatabase(copy)
                       /\ \A names \in Listings(databases', files') :
                              {members[2].Body.database, new} \subseteq Range(names)
                       /\ heap'[h] = heap[h]
                       /\ \A n \in DOMAIN databases \ {new} :
                              databases'[n] = databases[n]]_vars

=============================================================================
